---- MODULE Spec2Model ----
(***************************************************************************)
(* Model of the EvaSearchGPT search-fusion and answer-synthesis pipeline:  *)
(* the search route (src/app/api/search/route.ts), the provider clients    *)
(* and their rate limiter (src/utils/search-apis.ts), the result merger    *)
(* (deduplicateResults, scoreResults, mergeSearchResults,                  *)
(* assessResultQuality) and the performance monitor.                       *)
(*                                                                         *)
(* Conventions.                                                            *)
(*  - A JavaScript string that the code inspects character by character    *)
(*    (titles, URL paths) is a sequence of one-character strings.          *)
(*  - A URL is the record of the parts `new URL(url)` extracts; ok = FALSE *)
(*    is a string that `new URL` rejects.  Two url strings are the same    *)
(*    string iff the records are equal.                                    *)
(*  - relevanceScore is kept in tenths of a point (700 is 70.0), so that   *)
(*    the weighted sum of scoreResults is exact on whole-point inputs.     *)
(*  - A similarity ratio is the exact fraction [num, den].                 *)
(***************************************************************************)
EXTENDS Integers, Sequences, FiniteSets, TLC

\* Date.now(), in days
VARIABLE now

(***************************************************************************)
(* Strings                                                                 *)
(***************************************************************************)
UpperLetters == <<"A","B","C","D","E","F","G","H","I","J","K","L","M",
                  "N","O","P","Q","R","S","T","U","V","W","X","Y","Z">>

LowerLetters == <<"a","b","c","d","e","f","g","h","i","j","k","l","m",
                  "n","o","p","q","r","s","t","u","v","w","x","y","z">>

\* the lower-case form of each upper-case letter
LowerOf ==
  [c \in { UpperLetters[i] : i \in DOMAIN UpperLetters } |->
     LowerLetters[CHOOSE i \in DOMAIN UpperLetters : UpperLetters[i] = c]]

\* String.prototype.toLowerCase, one character
toLowerChar(c) == IF c \in DOMAIN LowerOf THEN LowerOf[c] ELSE c

\* String.prototype.toLowerCase
toLowerCase(s) == SubSeq([i \in DOMAIN s |-> toLowerChar(s[i])], 1, Len(s))

RECURSIVE trimStart(_)
trimStart(s) == IF s # <<>> /\ Head(s) = " " THEN trimStart(Tail(s)) ELSE s

RECURSIVE trimEnd(_)
trimEnd(s) ==
  IF s # <<>> /\ s[Len(s)] = " " THEN trimEnd(SubSeq(s, 1, Len(s) - 1)) ELSE s

\* String.prototype.trim
trim(s) == trimEnd(trimStart(s))

Min2(a, b) == IF a <= b THEN a ELSE b

Max2(a, b) == IF a >= b THEN a ELSE b

(***************************************************************************)
(* Similarity (result-merger)                                              *)
(***************************************************************************)
\* One row of the Levenshtein matrix: cur holds matrix[i][0 .. Len(cur)-1],
\* prev is matrix[i-1]; column j is stored at index j+1.
RECURSIVE levenshteinRow(_, _, _, _, _)
levenshteinRow(prev, cur, i, str1, str2) ==
  IF Len(cur) = Len(str2) + 1 THEN cur
  ELSE LET j    == Len(cur)
           cost == IF str1[i] = str2[j] THEN 0 ELSE 1
           v    == Min2(Min2(prev[j + 1] + 1, cur[j] + 1), prev[j] + cost)
       IN levenshteinRow(prev, Append(cur, v), i, str1, str2)

\* the matrix of calculateStringSimilarity, a sequence of rows: row i is
\* stored at index i+1
RECURSIVE levenshteinMatrix(_, _, _)
levenshteinMatrix(matrix, str1, str2) ==
  IF Len(matrix) = Len(str1) + 1 THEN matrix
  ELSE LET i == Len(matrix)
       IN levenshteinMatrix(
            Append(matrix, levenshteinRow(matrix[i], <<i>>, i, str1, str2)), str1, str2)

\* matrix[len1][len2]
levenshtein(str1, str2) ==
  levenshteinMatrix(<< [j \in 1..(Len(str2) + 1) |-> j - 1] >>,
                    str1, str2)[Len(str1) + 1][Len(str2) + 1]

Ratio(n, d) == [num |-> n, den |-> d]

\* r > n/d for a ratio r (the float comparisons `> 0.8`, `> 0.9`)
RatioGT(r, n, d) == r.num * d > n * r.den

calculateStringSimilarity(str1, str2) ==
  LET len1 == Len(str1)
      len2 == Len(str2)
  IN IF len1 = 0 THEN (IF len2 = 0 THEN Ratio(1, 1) ELSE Ratio(0, 1))
     ELSE IF len2 = 0 THEN Ratio(0, 1)
     ELSE LET maxLen == Max2(len1, len2)
          IN Ratio(maxLen - levenshtein(str1, str2), maxLen)

calculateUrlSimilarity(url1, url2) ==
  IF ~url1.ok \/ ~url2.ok THEN Ratio(0, 1)            \* new URL throws: catch
  ELSE IF url1.host = url2.host
       THEN LET path1 == toLowerCase(url1.path)
                path2 == toLowerCase(url2.path)
            IN IF path1 = path2 THEN Ratio(1, 1)
               ELSE LET pathSimilarity == calculateStringSimilarity(path1, path2)
                    IN IF RatioGT(pathSimilarity, 8, 10) THEN pathSimilarity
                       ELSE Ratio(0, 1)
       ELSE Ratio(0, 1)

calculateTitleSimilarity(title1, title2) ==
  LET t1 == trim(toLowerCase(title1))
      t2 == trim(toLowerCase(title2))
  IN IF t1 = t2 THEN Ratio(1, 1) ELSE calculateStringSimilarity(t1, t2)

\* the test of deduplicateResults: urlSimilarity > 0.8 || titleSimilarity > 0.9
isSimilar(result, existing) ==
  \/ RatioGT(calculateUrlSimilarity(result.url, existing.url), 8, 10)
  \/ RatioGT(calculateTitleSimilarity(result.title, existing.title), 9, 10)

(***************************************************************************)
(* deduplicateResults                                                      *)
(***************************************************************************)
\* index of the first element of uniqueResults similar to result, 0 if none
firstSimilar(result, uniqueResults) ==
  IF \E k \in DOMAIN uniqueResults : isSimilar(result, uniqueResults[k])
  THEN CHOOSE k \in DOMAIN uniqueResults :
         /\ isSimilar(result, uniqueResults[k])
         /\ \A m \in 1..(k - 1) : ~isSimilar(result, uniqueResults[m])
  ELSE 0

\* the replacement test: result.relevanceScore > existing.relevanceScore
replacesExisting(result, existing) == result.relevanceScore > existing.relevanceScore

\* one iteration of the loop over results; st = [unique, seen]
dedupStep(st, result) ==
  IF result.url \in st.seen
  THEN st                                              \* exact URL: dropped
  ELSE LET k == firstSimilar(result, st.unique)
       IN IF k = 0
          THEN [unique |-> Append(st.unique, result),
                seen   |-> st.seen \cup {result.url}]
          ELSE IF replacesExisting(result, st.unique[k])
               THEN [unique |-> [st.unique EXCEPT ![k] = result],
                     seen   |-> (st.seen \ {st.unique[k].url}) \cup {result.url}]
               ELSE st

RECURSIVE dedupLoop(_, _)
dedupLoop(st, results) ==
  IF results = <<>> THEN st
  ELSE dedupLoop(dedupStep(st, Head(results)), Tail(results))

deduplicateResults(results) ==
  dedupLoop([unique |-> <<>>, seen |-> {}], results).unique

(***************************************************************************)
(* Result normalizers (search-apis)                                        *)
(*                                                                         *)
(* A raw provider item is a record [title, url, description, snippet,      *)
(* page_rank, date, displayed].  A field the payload lacks holds the falsy *)
(* value of its type: <<>> or "" for a string, 0 for a number, EmptyUrl    *)
(* for a url, NoDate for a date; every use in the code is `field || ...`   *)
(* or `field ? ... : ...`, which treats the two alike.                     *)
(***************************************************************************)
EmptyUrl == [ok |-> FALSE, host |-> "", path |-> <<>>, search |-> ""]

NoDate == [kind |-> "none", day |-> 0]

NoTitle == <<"N","o"," ","t","i","t","l","e">>

NoDescription == "No description available"

\* Math.max(0, Math.min(100, x))
clamp100(x) == Max2(0, Min2(100, x))

\* `new URL(url).hostname` throws on a non-empty string that is no URL
hostnameThrows(url) == url # EmptyUrl /\ ~url.ok

\* the relevance of a brave item without the clamp
braveRelevanceUnclamped(result) ==
  (IF result.page_rank # 0 THEN result.page_rank ELSE 50) * 2

braveRelevance(result) ==
  clamp100((IF result.page_rank # 0 THEN result.page_rank ELSE 50) * 2)

transformBraveResult(result, index) ==
  [id             |-> <<"brave", index>>,
   title          |-> IF result.title # <<>> THEN result.title ELSE NoTitle,
   url            |-> result.url,
   snippet        |-> IF result.description # "" THEN result.description
                      ELSE IF result.snippet # "" THEN result.snippet
                      ELSE NoDescription,
   source         |-> "brave",
   relevanceScore |-> 10 * braveRelevance(result),
   publishedDate  |-> result.date,
   domain         |-> IF result.url # EmptyUrl THEN result.url.host ELSE ""]

transformBraveThrows(result) == hostnameThrows(result.url)

serpRelevance(index) == clamp100(100 - (index * 5))

transformSerpResult(result, index) ==
  [id             |-> <<"serp", index>>,
   title          |-> IF result.title # <<>> THEN result.title ELSE NoTitle,
   url            |-> result.url,
   snippet        |-> IF result.snippet # "" THEN result.snippet ELSE NoDescription,
   source         |-> "serpapi",
   relevanceScore |-> 10 * serpRelevance(index),
   publishedDate  |-> result.date,
   domain         |-> IF result.displayed # "" THEN result.displayed
                      ELSE IF result.url # EmptyUrl THEN result.url.host ELSE ""]

transformSerpThrows(result) == result.displayed = "" /\ hostnameThrows(result.url)

bingRelevance(index) == clamp100(100 - (index * 3))

transformBingResult(result, index) ==
  [id             |-> <<"bing", index>>,
   title          |-> IF result.title # <<>> THEN result.title ELSE NoTitle,
   url            |-> result.url,
   snippet        |-> IF result.snippet # "" THEN result.snippet ELSE NoDescription,
   source         |-> "bing",
   relevanceScore |-> 10 * bingRelevance(index),
   publishedDate  |-> result.date,
   domain         |-> IF result.displayed # "" THEN result.displayed
                      ELSE IF result.url # EmptyUrl THEN result.url.host ELSE ""]

transformBingThrows(result) == result.displayed = "" /\ hostnameThrows(result.url)

\* results.map(transformXResult): Array.prototype.map passes the 0-based index
transformAll(source, results) ==
  [i \in DOMAIN results |->
     IF source = "brave" THEN transformBraveResult(results[i], i - 1)
     ELSE IF source = "serpapi" THEN transformSerpResult(results[i], i - 1)
     ELSE transformBingResult(results[i], i - 1)]

transformAnyThrows(source, results) ==
  \E i \in DOMAIN results :
    IF source = "brave" THEN transformBraveThrows(results[i])
    ELSE IF source = "serpapi" THEN transformSerpThrows(results[i])
    ELSE transformBingThrows(results[i])

(***************************************************************************)
(* scoreResults, mergeSearchResults, assessResultQuality (result-merger)   *)
(***************************************************************************)
calculateDomainAuthority(domain) ==
  CASE domain = "wikipedia.org"            -> 95
    [] domain = "github.com"               -> 90
    [] domain = "stackoverflow.com"        -> 85
    [] domain = "medium.com"               -> 80
    [] domain = "reddit.com"               -> 75
    [] domain = "quora.com"                -> 70
    [] domain = "youtube.com"              -> 85
    [] domain = "docs.google.com"          -> 80
    [] domain = "microsoft.com"            -> 90
    [] domain = "apple.com"                -> 90
    [] domain = "mozilla.org"              -> 85
    [] domain = "w3.org"                   -> 90
    [] domain = "ieee.org"                 -> 95
    [] domain = "acm.org"                  -> 95
    [] domain = "arxiv.org"                -> 90
    [] domain = "nature.com"               -> 95
    [] domain = "science.org"              -> 95
    [] domain = "pubmed.ncbi.nlm.nih.gov"  -> 95
    [] OTHER                               -> 50

\* today is the day of `new Date()`; an unparsable date gives NaN, for which
\* every comparison is false
calculateFreshnessScore(publishedDate, today) ==
  IF publishedDate.kind = "none" THEN 50
  ELSE IF publishedDate.kind = "invalid" THEN 40
  ELSE LET daysDiff == today - publishedDate.day
       IN IF daysDiff <= 1 THEN 100
          ELSE IF daysDiff <= 7 THEN 90
          ELSE IF daysDiff <= 30 THEN 80
          ELSE IF daysDiff <= 90 THEN 70
          ELSE IF daysDiff <= 365 THEN 60
          ELSE 40

getSourceWeight(source) ==
  CASE source = "brave"   -> 85
    [] source = "serpapi" -> 90
    [] OTHER              -> 50

\* Math.min(100, Math.max(0, enhancedScore)), in tenths
clampScore(enhancedScore) == Min2(1000, Max2(0, enhancedScore))

\* relevanceScore*0.4 + domainAuthority*0.3 + freshnessScore*0.2 + sourceWeight*0.1,
\* in tenths: relevanceScore is in tenths already, the other three are points
enhancedScore(result, today) ==
  (4 * result.relevanceScore
     + 30 * calculateDomainAuthority(result.domain)
     + 20 * calculateFreshnessScore(result.publishedDate, today)
     + 10 * getSourceWeight(result.source)) \div 10

scoreResults(results, today) ==
  [i \in DOMAIN results |->
     [results[i] EXCEPT !.relevanceScore = clampScore(enhancedScore(results[i], today))]]

\* insertion of r into a list sorted by non-increasing score, after its equals:
\* Array.prototype.sort is stable
RECURSIVE insertSorted(_, _)
insertSorted(sorted, r) ==
  IF sorted = <<>> THEN <<r>>
  ELSE IF Head(sorted).relevanceScore >= r.relevanceScore
       THEN <<Head(sorted)>> \o insertSorted(Tail(sorted), r)
       ELSE <<r>> \o sorted

RECURSIVE sortByScoreFrom(_, _)
sortByScoreFrom(sorted, rest) ==
  IF rest = <<>> THEN sorted
  ELSE sortByScoreFrom(insertSorted(sorted, Head(rest)), Tail(rest))

\* a sort that leaves results of equal score in reverse order
sortByScoreTiesReversed(results) ==
  sortByScoreFrom(<<>>, [i \in 1 .. Len(results) |-> results[Len(results) + 1 - i]])

\* .sort((a, b) => b.relevanceScore - a.relevanceScore)
sortByScore(results) == sortByScoreFrom(<<>>, results)

\* Array.prototype.slice(0, n)
sliceTo(seq, n) == SubSeq(seq, 1, Min2(n, Len(seq)))

\* the loop of mergeSearchResults that combines the successful responses
RECURSIVE combineResults(_)
combineResults(apiResponses) ==
  IF apiResponses = <<>> THEN <<>>
  ELSE (IF Head(apiResponses).success /\ Len(Head(apiResponses).results) > 0
        THEN Head(apiResponses).results ELSE <<>>)
       \o combineResults(Tail(apiResponses))

\* a merge that also takes the results of the responses that failed
RECURSIVE resultsOfAll(_)
resultsOfAll(apiResponses) ==
  IF apiResponses = <<>> THEN <<>>
  ELSE Head(apiResponses).results \o resultsOfAll(Tail(apiResponses))

mergeIgnoringSuccess(apiResponses, today) ==
  LET allResults == resultsOfAll(apiResponses)
  IN IF Len(allResults) = 0 THEN <<>>
     ELSE sliceTo(sortByScore(scoreResults(deduplicateResults(allResults), today)), 15)

mergeSearchResults(apiResponses, today) ==
  LET allResults == combineResults(apiResponses)
  IN IF Len(allResults) = 0 THEN <<>>
     ELSE sliceTo(sortByScore(scoreResults(deduplicateResults(allResults), today)), 15)

RECURSIVE sumRelevance(_)
sumRelevance(results) ==
  IF results = <<>> THEN 0
  ELSE Head(results).relevanceScore + sumRelevance(Tail(results))

\* the assessment without the case of the empty list
assessWithoutEmptyCase(results) ==
  LET n == Len(results)
      qualityScore == 100 - (IF n < 5 THEN 20 ELSE 0)
                          - (IF sumRelevance(results) < 600 * n THEN 25 ELSE 0)
                          - (IF Cardinality({results[i].domain : i \in 1..n}) < 3 THEN 15 ELSE 0)
  IN [quality    |-> IF qualityScore < 50 THEN "low"
                     ELSE IF qualityScore < 75 THEN "medium" ELSE "high",
      confidence |-> Max2(0, Min2(100, qualityScore)),
      issues     |-> <<>>]

\* an assessment that takes five results for few
assessFiveAsFew(results) ==
  LET exact == assessWithoutEmptyCase(results)
  IN IF Len(results) = 0
     THEN [quality |-> "low", confidence |-> 0, issues |-> <<"No results found">>]
     ELSE IF Len(results) = 5 THEN [exact EXCEPT !.confidence = @ - 20] ELSE exact

assessResultQuality(results) ==
  IF Len(results) = 0
  THEN [quality |-> "low", confidence |-> 0, issues |-> <<"No results found">>]
  ELSE LET n        == Len(results)
           few      == n < 5
           lowAvg   == sumRelevance(results) < 600 * n      \* avgRelevance < 60
           uniqueDomains == Cardinality({results[i].domain : i \in 1..n})
           narrow   == uniqueDomains < 3
           withDates == Cardinality({i \in 1..n : results[i].publishedDate.kind # "none"})
           undated  == 2 * withDates < n                     \* withDates < n * 0.5
           qualityScore == 100 - (IF few THEN 20 ELSE 0) - (IF lowAvg THEN 25 ELSE 0)
                               - (IF narrow THEN 15 ELSE 0) - (IF undated THEN 10 ELSE 0)
           issues == (IF few THEN <<"Limited number of results">> ELSE <<>>)
                     \o (IF lowAvg THEN <<"Low average relevance score">> ELSE <<>>)
                     \o (IF narrow THEN <<"Limited source diversity">> ELSE <<>>)
                     \o (IF undated THEN <<"Many results lack publication dates">> ELSE <<>>)
       IN [quality    |-> IF qualityScore < 50 THEN "low"
                          ELSE IF qualityScore < 75 THEN "medium" ELSE "high",
           confidence |-> Max2(0, Min2(100, qualityScore)),
           issues     |-> issues]

\* an assessment whose date filter removes the undated results from the array
resultsWithoutUndated(results) ==
  SelectSeq(results, LAMBDA r : r.publishedDate.kind # "none")

\* the array handed to assessResultQuality, after the call: length, reduce,
\* map and filter only read it
resultsAfterAssess(results) == results

(***************************************************************************)
(* Input pools                                                             *)
(***************************************************************************)
TitleBit   == <<"Q","u","a","n","t","u","m"," ","b","i","t">>

TitleBid   == <<"Q","u","a","n","t","u","m"," ","b","i","d">>

TitleAid   == <<"Q","u","a","n","t","u","m"," ","a","i","d">>

\* equal to TitleBit once lower-cased and trimmed
TitleBitLoose == <<" ","q","u","a","n","t","u","m"," ","b","i","t"," ">>

TitleFish  == <<"D","e","e","p"," ","s","e","a"," ","f","i","s","h">>

PathQuantum  == <<"/","Q","u","a","n","t","u","m">>

PathQuantumLower == <<"/","q","u","a","n","t","u","m">>

PathQuantums == <<"/","Q","u","a","n","t","u","m","s">>

PathAbs == <<"/","a","b","s">>

Url(host, path) == [ok |-> TRUE, host |-> host, path |-> path, search |-> ""]

\* a non-empty string that `new URL` rejects
BadUrl == [ok |-> FALSE, host |-> "not a url", path |-> <<>>, search |-> ""]

DateOn(day) == [kind |-> "date", day |-> day]

InvalidDate == [kind |-> "invalid", day |-> 0]

Result(n, title, url, score, date, source) ==
  [id |-> <<source, n>>, title |-> title, url |-> url, snippet |-> "snippet",
   source |-> source, relevanceScore |-> score, publishedDate |-> date,
   domain |-> url.host]

ResBit == Result(1, TitleBit, Url("wikipedia.org", PathQuantum), 700, NoDate, "brave")

\* the url of ResBit, with a higher score
ResSameUrl == Result(2, TitleFish, Url("wikipedia.org", PathQuantum), 900, NoDate, "serpapi")

\* a title one edit away from ResBit's and from ResAid's
ResBid == Result(3, TitleBid, Url("arxiv.org", PathAbs), 800, NoDate, "serpapi")

ResAid == Result(4, TitleAid, Url("github.com", PathAbs), 600, NoDate, "brave")

\* ResBit up to letter case and surrounding blanks, with the same score
ResBitLoose ==
  Result(5, TitleBitLoose, Url("wikipedia.org", PathQuantumLower), 700, NoDate, "serpapi")

\* a path one edit away from ResBit's
ResQuantums ==
  Result(6, TitleFish, Url("wikipedia.org", PathQuantums), 900, DateOn(99), "brave")

\* results that are duplicates of one another in several ways
DedupPool == {ResBit, ResSameUrl, ResBid, ResAid, ResBitLoose, ResQuantums}

ScoreTop == Result(1, TitleBit, Url("wikipedia.org", PathQuantum), 1000, DateOn(100), "serpapi")

ScoreOld == Result(2, TitleFish, Url("example.com", PathAbs), 0, DateOn(0), "bing")

ScoreOver == Result(3, TitleAid, Url("github.com", PathAbs), 5000, InvalidDate, "brave")

ScoreUnder == Result(4, TitleBid, Url("arxiv.org", PathAbs), -1000, NoDate, "brave")

\* a date string that `new Date` cannot parse, as in the `age` of a provider
ScoreUnparsed == Result(5, TitleFish, Url("example.com", PathAbs), 600, InvalidDate, "serpapi")

\* results that exercise every term of the composite score, with raw scores
\* inside and outside [0,100]
ScorePool == {ScoreTop, ScoreOld, ScoreOver, ScoreUnder, ScoreUnparsed}

\* results carried by the responses handed to mergeSearchResults
MergePool == {ResBit, ResSameUrl, ScoreOver}

Raw(title, url, pageRank, date, displayed) ==
  [title |-> title, url |-> url, description |-> "", snippet |-> "text",
   page_rank |-> pageRank, date |-> date, displayed |-> displayed]

RawPool ==
  { Raw(TitleBit, Url("wikipedia.org", PathQuantum), 0, NoDate, ""),
    Raw(<<>>, EmptyUrl, 60, DateOn(99), ""),
    Raw(TitleFish, Url("example.com", PathAbs), -5, InvalidDate, "example.com"),
    Raw(TitleAid, Url("github.com", PathAbs), 30, DateOn(0), "") }

\* longest list handed to a pure function
MaxInputLen == 3

\* longest payload handed to a normalizer
MaxRawLen == 2

ListsOver(pool, n) == UNION { [1..k -> pool] : k \in 0..n }

ResultInputs ==
  { [kind |-> "results", v |-> l, source |-> ""] :
      l \in ListsOver(DedupPool, MaxInputLen) \cup ListsOver(ScorePool, MaxInputLen) }

RawInputs ==
  { [kind |-> "raw", v |-> l, source |-> s] :
      l \in ListsOver(RawPool, MaxRawLen), s \in {"brave", "serpapi", "bing"} }

\* longest result list of a response handed to mergeSearchResults
MaxResponseLen == 2

Response(source, results, success, error) ==
  [results |-> results, totalResults |-> Len(results), source |-> source,
   success |-> success, error |-> error]

ResponseLists ==
  { <<Response("brave", b, sb, IF sb THEN "" ELSE "failed"),
      Response("serpapi", r, sr, IF sr THEN "" ELSE "failed")>> :
      b \in ListsOver(MergePool, MaxResponseLen), sb \in BOOLEAN,
      r \in ListsOver(MergePool, MaxResponseLen), sr \in BOOLEAN }

\* hosts outside the authority table, and letters for titles that share none
CrowdHosts ==
  << "a.example", "b.example", "c.example", "d.example", "e.example", "f.example",
     "g.example", "h.example", "i.example", "j.example", "k.example", "l.example",
     "m.example", "n.example", "o.example", "p.example", "q.example", "r.example" >>

CrowdLetters ==
  << "a","b","c","d","e","f","g","h","i","j","k","l","m","n","o","p","q","r" >>

\* the n-th result of a crowd of results that are not similar to one another
\* and whose raw scores repeat every third result
CrowdResult(n, source) ==
  Result(n, <<CrowdLetters[n], CrowdLetters[n]>>, Url(CrowdHosts[n], PathAbs),
         500 + 100 * (n % 3), NoDate, source)

Crowd(source, first, last) ==
  [i \in 1 .. (last - first + 1) |-> CrowdResult(first + i - 1, source)]

\* two successful responses that carry 14 to 18 results together
CrowdLists ==
  { <<Response("brave", Crowd("brave", 1, b), TRUE, ""),
      Response("serpapi", Crowd("serpapi", 10, r), TRUE, "")>> :
      b \in {7, 8, 9}, r \in {16, 18} }

ResponseInputs ==
  { [kind |-> "responses", v |-> l, source |-> ""] : l \in ResponseLists \cup CrowdLists }

\* n results spread over `domains` hosts, each with the raw score `raw`, the
\* first `dated` of them with a date
Assessed(n, domains, raw, dated) ==
  [i \in 1 .. n |->
     Result(i, <<CrowdLetters[i], CrowdLetters[i]>>,
            Url(CrowdHosts[1 + (i % domains)], PathAbs), raw,
            IF i <= dated THEN DateOn(99) ELSE NoDate, "brave")]

\* result sets on both sides of each threshold of assessResultQuality
AssessInputs ==
  { [kind |-> "results", v |-> Assessed(n, domains, raw, Min2(n, dated)), source |-> ""] :
      n \in {4, 5, 8}, domains \in {2, 3, 8}, raw \in {590, 600, 850},
      dated \in {2, 3, 4, 8} }

\* queries for detectQueryIntent: keywords of several categories, of one, of
\* none, in upper case, and inside a longer word
IntentQueries ==
  { <<"h","o","w"," ","t","o"," ","f","i","x"," ","p","y","t","h","o","n"," ","e","r","r","o","r">>,
    <<"b","e","s","t"," ","p","y","t","h","o","n"," ","t","u","t","o","r","i","a","l">>,
    <<"l","a","t","e","s","t"," ","p","r","i","c","e"," ","n","e","w","s">>,
    <<"r","e","c","e","n","t"," ","s","t","u","d","y">>,
    <<"w","h","a","t"," ","i","s"," ","l","o","v","e">>,
    <<"S","o","l","a","r"," ","c","e","l","l","s">>,
    <<"P","Y","T","H","O","N">>,
    <<"w","o","r","l","d"," ","c","a","p","i","t","a","l">>,
    <<"c","a","n","v","a","s"," ","a","r","t">>,
    <<>> }

QueryInputs == { [kind |-> "query", v |-> q, source |-> ""] : q \in IntentQueries }

\* the day of `new Date()` in the pure-function runs
Today == 100

(***************************************************************************)
(* Rate limiter (search-apis)                                              *)
(*                                                                         *)
(* Time is counted in days: the 'month' window of 2592000000 ms is 30.     *)
(***************************************************************************)
BraveRequests == 2000

SerpapiRequests == 100

MonthPeriod == 30

\* config.rateLimits[source].requests
rateLimitRequests(source) ==
  IF source = "brave" THEN BraveRequests ELSE SerpapiRequests

NoWindow == [present |-> FALSE, count |-> 0, resetTime |-> 0]

\* a limiter that counts the calls it refuses
checkRateLimitCounting(tracker, source, time) ==
  LET current == tracker[source]
  IN IF ~current.present \/ time > current.resetTime
     THEN [allowed |-> TRUE,
           tracker |-> [tracker EXCEPT ![source] =
                          [present |-> TRUE, count |-> 1, resetTime |-> time + MonthPeriod]]]
     ELSE [allowed |-> current.count < rateLimitRequests(source),
           tracker |-> [tracker EXCEPT ![source].count = current.count + 1]]

\* a limiter whose window never runs out
checkRateLimitNeverResets(tracker, source, time) ==
  LET current == tracker[source]
  IN IF ~current.present
     THEN [allowed |-> TRUE,
           tracker |-> [tracker EXCEPT ![source] =
                          [present |-> TRUE, count |-> 1, resetTime |-> time + MonthPeriod]]]
     ELSE IF current.count >= rateLimitRequests(source)
          THEN [allowed |-> FALSE, tracker |-> tracker]
          ELSE [allowed |-> TRUE,
                tracker |-> [tracker EXCEPT ![source].count = current.count + 1]]

\* a limiter whose increment is lost
checkRateLimitUncounted(tracker, source, time) ==
  LET current == tracker[source]
  IN IF ~current.present \/ time > current.resetTime
     THEN [allowed |-> TRUE,
           tracker |-> [tracker EXCEPT ![source] =
                          [present |-> TRUE, count |-> 1, resetTime |-> time + MonthPeriod]]]
     ELSE [allowed |-> current.count < rateLimitRequests(source), tracker |-> tracker]

\* checkRateLimit: the verdict and the tracker it leaves
checkRateLimit(tracker, source, time) ==
  LET current == tracker[source]
  IN IF ~current.present \/ time > current.resetTime
     THEN [allowed |-> TRUE,
           tracker |-> [tracker EXCEPT ![source] =
                          [present |-> TRUE, count |-> 1, resetTime |-> time + MonthPeriod]]]
     ELSE IF current.count >= rateLimitRequests(source)
          THEN [allowed |-> FALSE, tracker |-> tracker]
          ELSE [allowed |-> TRUE,
                tracker |-> [tracker EXCEPT ![source].count = current.count + 1]]

(***************************************************************************)
(* Performance monitor                                                     *)
(***************************************************************************)
MAX_METRICS == 1000

\* a buffer that turns the newest metric away once it is full
logMetricKeepOldest(buffer, metric) ==
  IF Len(buffer) >= MAX_METRICS THEN buffer ELSE Append(buffer, metric)

\* PerformanceMonitor.logMetric
logMetric(buffer, metric) ==
  LET pushed == Append(buffer, metric)
  IN IF Len(pushed) > MAX_METRICS THEN Tail(pushed) ELSE pushed

\* the closure PerformanceMonitor.startTimer returns, called with `success`
timerDone(buffer, operation, success) ==
  logMetric(buffer, [operation |-> operation, success |-> success])

(***************************************************************************)
(* Provider clients (search-apis): searchBrave, searchSerpAPI              *)
(***************************************************************************)
\* the providers of the search route, in the order the route calls them
Providers == <<"brave", "serpapi">>

ProviderSet == {"brave", "serpapi"}

\* a failure reported as a success
failedResponseAsSuccess(source, error) == Response(source, <<>>, TRUE, "")

failedResponse(source, error) == Response(source, <<>>, FALSE, error)

\* the catch block of searchBrave / searchSerpAPI: error.message
providerError(source, kind) ==
  CASE kind = "refused" -> IF source = "brave" THEN "Rate limit exceeded for Brave Search"
                           ELSE "Rate limit exceeded for SerpAPI"
    [] kind = "timeout" -> "timeout exceeded"
    [] kind = "error"   -> "Network Error"
    [] OTHER            -> "Invalid URL"

\* what the promise of searchBrave / searchSerpAPI resolves to; net is what the
\* network call did: [kind: "refused" | "timeout" | "error" | "ok", payload]
searchResponse(source, net) ==
  IF net.kind = "ok"
  THEN IF transformAnyThrows(source, net.payload)
       THEN failedResponse(source, providerError(source, "transform"))
       ELSE Response(source, transformAll(source, net.payload), TRUE, "")
  ELSE failedResponse(source, providerError(source, net.kind))

(***************************************************************************)
(* Answer texts                                                            *)
(*                                                                         *)
(* A text is [parts, length, source, findings]: the fragments it is made   *)
(* of, its length in characters (url strings not counted: no length test   *)
(* of the code can depend on them), whether its lower-cased form contains  *)
(* 'source', and whether it contains 'findings', 'conclusion' or           *)
(* 'takeaway'.  A text returned by the model carries in addition what the  *)
(* route computes from it before changing it: trim().length, the number of *)
(* [n] markers, the number of ##/### headings, and whether it contains     *)
(* 'summary'.  Queries and titles of the pools contain none of these words.*)
(***************************************************************************)
Text(parts, length, source, findings) ==
  [parts |-> parts, length |-> length, source |-> source, findings |-> findings]

EmptyText == Text(<<>>, 0, FALSE, FALSE)

concat(a, b) ==
  Text(a.parts \o b.parts, a.length + b.length, a.source \/ b.source,
       a.findings \/ b.findings)

AiText(name, length, trimLength, citations, sections, summary, source, findings) ==
  [name |-> name, length |-> length, trimLength |-> trimLength,
   citations |-> citations, sections |-> sections, summary |-> summary,
   source |-> source, findings |-> findings]

asText(ai) == Text(<<ai.name>>, ai.length, ai.source, ai.findings)

RECURSIVE titleLengths(_)
titleLengths(results) ==
  IF results = <<>> THEN 0 ELSE Len(Head(results).title) + titleLengths(Tail(results))

\* the texts the model may return
LlmTexts ==
  { AiText("llm-empty", 0, 0, 0, 0, FALSE, FALSE, FALSE),
    AiText("llm-blank", 40, 0, 0, 0, FALSE, FALSE, FALSE),
    AiText("llm-short", 60, 60, 1, 0, FALSE, FALSE, FALSE),
    AiText("llm-plain", 150, 150, 0, 0, FALSE, FALSE, FALSE),
    AiText("llm-long", 400, 400, 1, 1, FALSE, FALSE, FALSE),
    AiText("llm-brief", 300, 300, 5, 3, TRUE, TRUE, TRUE),
    AiText("llm-report", 6000, 6000, 9, 8, TRUE, TRUE, TRUE) }

\* the template used when both model calls failed (route.ts 507-515)
titlesTemplate(query, limitedResults) ==
  LET shown == sliceTo(limitedResults, 3)
  IN AiText("titles-template",
            160 + Len(query) + 5 * Len(shown) + titleLengths(shown),
            160 + Len(query) + 5 * Len(shown) + titleLengths(shown),
            0, 1 + Len(shown), FALSE, TRUE, TRUE)

\* the notice of the outer catch (aiError), route.ts 521
aiErrorNotice(query) ==
  AiText("ai-error-notice", 196 + 2 * Len(query), 196 + 2 * Len(query),
         0, 0, FALSE, TRUE, FALSE)

\* the answer built from the search results when the model's text is empty or
\* shorter than 100 characters (route.ts 556-583)
shortTemplate(query, mergedResults) ==
  Text(<<"short-template">>,
       1500 + 5 * Len(query) + titleLengths(sliceTo(mergedResults, 5)), TRUE, FALSE)

\* "## Additional Sources I Found Helpful" (route.ts 609-611)
additionalSources(query, limitedResults) ==
  LET shown == sliceTo(limitedResults, 5)
  IN Text(<<"additional-sources">>,
          123 + Len(query) + 44 * Len(shown) + titleLengths(shown), TRUE, FALSE)

\* "# query: What You Need to Know" (route.ts 620)
wrapHeader(query) == Text(<<"wrap-header">>, 27 + Len(query), FALSE, FALSE)

\* "## Here's What You Need to Know ..." (route.ts 623)
summaryIntro(query) == Text(<<"summary-intro">>, 286 + Len(query), TRUE, FALSE)

\* "## Detailed Report\n\n" before and "\n\n" after the original content
detailedReport(originalContent) ==
  concat(concat(Text(<<"detailed-report">>, 20, FALSE, FALSE), originalContent),
         Text(<<>>, 2, FALSE, FALSE))

\* "## Key Takeaways", one bullet for each of the first three results, and
\* "## In Conclusion" (route.ts 630-636)
keyTakeaways(query, limitedResults) ==
  LET shown == sliceTo(limitedResults, 3)
  IN Text(<<"key-takeaways", "conclusion">>,
          19 + 82 * Len(shown) + titleLengths(shown) + 297 + Len(query), TRUE, TRUE)

\* "## Sources I Referenced" (route.ts 642-644)
sourcesSection(limitedResults) ==
  Text(<<"sources-referenced">>,
       81 + 20 * Len(limitedResults) + titleLengths(limitedResults), TRUE, FALSE)

\* a validation that takes every model text as it is
tooShortNever(ai) == FALSE

\* a validation that turns away texts of fewer than 200 characters
tooShortBelowTwoHundred(ai) == ai.length = 0 \/ ai.trimLength < 200

\* the test for an unusable model text: !aiResponse || aiResponse.trim().length < 100
tooShort(ai) == ai.length = 0 \/ ai.trimLength < 100

\* config.minResponseLength, in words
minResponseLength == 800

\* the else branch of the validation (route.ts 585-645); needsEnhancement, set
\* at 599-602 when the text has fewer than minResponseLength words, is not
\* read by any statement
enhanceAnswer(ai, query, limitedResults) ==
  LET expectedCitations == Min2(5, Len(limitedResults))
      hasProperSections == ai.sections >= 3
      cited == IF ai.citations < expectedCitations /\ Len(limitedResults) > 0
               THEN concat(asText(ai), additionalSources(query, limitedResults))
               ELSE asText(ai)
      wrapped == concat(concat(wrapHeader(query),
                               IF ~ai.summary THEN summaryIntro(query) ELSE EmptyText),
                        detailedReport(cited))
      structured == IF ~hasProperSections /\ cited.length > 200
                    THEN IF ~wrapped.findings
                         THEN concat(wrapped, keyTakeaways(query, limitedResults))
                         ELSE wrapped
                    ELSE cited
  IN IF ~structured.source /\ Len(limitedResults) > 0
     THEN concat(structured, sourcesSection(limitedResults))
     ELSE structured

\* "Verify and enhance the AI response" (route.ts 551-646)
validateAnswer(ai, query, mergedResults, limitedResults) ==
  IF tooShort(ai) THEN shortTemplate(query, mergedResults)
  ELSE enhanceAnswer(ai, query, limitedResults)

(***************************************************************************)
(* Prompt engine: detectQueryIntent, generateFollowUpQuestions             *)
(***************************************************************************)
\* str.substring(i - 1, i - 1 + Len(pattern)) = pattern
matchesAt(str, pattern, i) ==
  /\ i + Len(pattern) - 1 <= Len(str)
  /\ pattern = <<>> \/ str[i] = pattern[1]
  /\ SubSeq(str, i, i + Len(pattern) - 1) = pattern

\* String.prototype.includes
includes(str, pattern) ==
  \E i \in 1..(Len(str) - Len(pattern) + 1) : matchesAt(str, pattern, i)

technicalPatterns ==
  { <<"h","o","w"," ","t","o">>,
    <<"t","u","t","o","r","i","a","l">>,
    <<"g","u","i","d","e">>,
    <<"i","n","s","t","a","l","l">>,
    <<"c","o","n","f","i","g","u","r","e">>,
    <<"s","e","t","u","p">>,
    <<"c","o","d","e">>,
    <<"p","r","o","g","r","a","m","m","i","n","g">>,
    <<"a","p","i">>,
    <<"j","a","v","a","s","c","r","i","p","t">>,
    <<"p","y","t","h","o","n">>,
    <<"r","e","a","c","t">>,
    <<"e","r","r","o","r">>,
    <<"d","e","b","u","g">>,
    <<"f","i","x">>,
    <<"t","r","o","u","b","l","e","s","h","o","o","t">>,
    <<"i","m","p","l","e","m","e","n","t">> }

shoppingPatterns ==
  { <<"b","u","y">>,
    <<"p","u","r","c","h","a","s","e">>,
    <<"p","r","i","c","e">>,
    <<"c","o","s","t">>,
    <<"c","h","e","a","p">>,
    <<"b","e","s","t">>,
    <<"r","e","v","i","e","w">>,
    <<"c","o","m","p","a","r","e">>,
    <<"v","s">>,
    <<"v","e","r","s","u","s">>,
    <<"a","m","a","z","o","n">>,
    <<"s","t","o","r","e">>,
    <<"s","a","l","e">>,
    <<"d","e","a","l">> }

newsPatterns ==
  { <<"n","e","w","s">>,
    <<"l","a","t","e","s","t">>,
    <<"r","e","c","e","n","t">>,
    <<"u","p","d","a","t","e">>,
    <<"t","o","d","a","y">>,
    <<"y","e","s","t","e","r","d","a","y">>,
    <<"b","r","e","a","k","i","n","g">>,
    <<"a","n","n","o","u","n","c","e","m","e","n","t">>,
    <<"r","e","l","e","a","s","e","d">>,
    <<"h","a","p","p","e","n","e","d">> }

researchPatterns ==
  { <<"w","h","a","t"," ","i","s">>,
    <<"d","e","f","i","n","i","t","i","o","n">>,
    <<"e","x","p","l","a","i","n">>,
    <<"a","n","a","l","y","s","i","s">>,
    <<"s","t","u","d","y">>,
    <<"r","e","s","e","a","r","c","h">>,
    <<"s","t","a","t","i","s","t","i","c","s">>,
    <<"d","a","t","a">>,
    <<"r","e","p","o","r","t">>,
    <<"a","c","a","d","e","m","i","c">> }

\* patterns.some(pattern => lowerQuery.includes(pattern))
somePattern(patterns, lowerQuery) == \E pattern \in patterns : includes(lowerQuery, pattern)

\* an intent detection that tries the shopping keywords first
detectShoppingFirst(q) ==
  LET lowerQuery == toLowerCase(q)
  IN IF somePattern(shoppingPatterns, lowerQuery) THEN "shopping"
     ELSE IF somePattern(technicalPatterns, lowerQuery) THEN "technical"
     ELSE IF somePattern(newsPatterns, lowerQuery) THEN "news"
     ELSE IF somePattern(researchPatterns, lowerQuery) THEN "research"
     ELSE "general"

detectQueryIntent(q) ==
  LET lowerQuery == toLowerCase(q)
  IN IF somePattern(technicalPatterns, lowerQuery) THEN "technical"
     ELSE IF somePattern(shoppingPatterns, lowerQuery) THEN "shopping"
     ELSE IF somePattern(newsPatterns, lowerQuery) THEN "news"
     ELSE IF somePattern(researchPatterns, lowerQuery) THEN "research"
     ELSE "general"

stopWords ==
  { <<"w","h","a","t">>,
    <<"h","o","w">>,
    <<"w","h","y">>,
    <<"w","h","e","n">>,
    <<"w","h","e","r","e">>,
    <<"i","s">>,
    <<"a","r","e">>,
    <<"t","e","l","l">>,
    <<"m","e">>,
    <<"a","b","o","u","t">>,
    <<"t","h","e">>,
    <<"a">>,
    <<"a","n">>,
    <<"a","n","d">>,
    <<"o","r">>,
    <<"b","u","t">>,
    <<"i","n">>,
    <<"o","n">>,
    <<"a","t">>,
    <<"t","o">>,
    <<"f","o","r">>,
    <<"o","f">>,
    <<"w","i","t","h">>,
    <<"b","y">>,
    <<"l","a","t","e","s","t">>,
    <<"b","e","s","t">>,
    <<"t","o","p">>,
    <<"n","e","w","s">>,
    <<"e","x","p","l","a","i","n">>,
    <<"d","e","s","c","r","i","b","e">>,
    <<"w","o","r","k","s">>,
    <<"d","o","e","s">>,
    <<"d","o">>,
    <<"c","a","n">>,
    <<"c","o","u","l","d">>,
    <<"w","o","u","l","d">>,
    <<"s","h","o","u","l","d">> }

\* the alternatives of /^(what is|what are|how does|how to|tell me about|explain|describe)/gi
\* in the order the regular expression tries them
leadingPatterns ==
  << <<"w","h","a","t"," ","i","s">>,
     <<"w","h","a","t"," ","a","r","e">>,
     <<"h","o","w"," ","d","o","e","s">>,
     <<"h","o","w"," ","t","o">>,
     <<"t","e","l","l"," ","m","e"," ","a","b","o","u","t">>,
     <<"e","x","p","l","a","i","n">>,
     <<"d","e","s","c","r","i","b","e">> >>

\* query.replace(/^(...)/gi, ''): the first alternative that matches at the start
RECURSIVE stripLeading(_, _)
stripLeading(q, k) ==
  IF k > Len(leadingPatterns) THEN q
  ELSE IF matchesAt(toLowerCase(q), leadingPatterns[k], 1)
       THEN SubSeq(q, Len(leadingPatterns[k]) + 1, Len(q))
       ELSE stripLeading(q, k + 1)

\* the positions at which a run of non-white-space characters starts
wordStarts(str) ==
  { i \in DOMAIN str : str[i] # " " /\ (i = 1 \/ str[i - 1] = " ") }

\* the run of non-white-space characters that starts at i
wordFrom(str, i) ==
  LET ends == { j \in i..Len(str) : j = Len(str) \/ str[j + 1] = " " }
      last == CHOOSE j \in ends : \A k \in ends : j <= k
  IN SubSeq(str, i, last)

\* str.split(/\s+/): the runs in order, with an empty piece before white space
\* that starts the string and after white space that ends it
splitWhitespace(str) ==
  LET starts == wordStarts(str)
      nth(n) == CHOOSE i \in starts : Cardinality({ j \in starts : j < i }) = n - 1
      pieces == [n \in 1..Cardinality(starts) |-> wordFrom(str, nth(n))]
  IN IF str = <<>> THEN << <<>> >>
     ELSE (IF str[1] = " " THEN << <<>> >> ELSE <<>>)
          \o pieces
          \o (IF str[Len(str)] = " " THEN << <<>> >> ELSE <<>>)

\* words.join(' ')
RECURSIVE joinWords(_)
joinWords(words) ==
  IF words = <<>> THEN <<>>
  ELSE IF Len(words) = 1 THEN words[1]
  ELSE words[1] \o <<" ">> \o joinWords(Tail(words))

ThisTopic == <<"t","h","i","s"," ","t","o","p","i","c">>

extractKeyTopic(q) ==
  LET cleanedQuery == trim(stripLeading(q, 1))
      words == SelectSeq(splitWhitespace(toLowerCase(q)),
                         LAMBDA word : word \notin stopWords)
      topicPhrase == joinWords(sliceTo(words, 4))
  IN IF \E i \in DOMAIN cleanedQuery : cleanedQuery[i] = " "   \* split(' ').length >= 2
     THEN cleanedQuery
     ELSE IF topicPhrase # <<>> THEN topicPhrase ELSE ThisTopic

WordChars ==
  { UpperLetters[i] : i \in DOMAIN UpperLetters } \cup
  { LowerLetters[i] : i \in DOMAIN LowerLetters } \cup
  {"0","1","2","3","4","5","6","7","8","9","_"}

Digits == {"0","1","2","3","4","5","6","7","8","9"}

\* the maximal runs of \w characters of a title, lower-cased: \bX\b with X made
\* of \w characters matches exactly when X is one of them
RECURSIVE wordRuns(_, _)
wordRuns(str, run) ==
  IF str = <<>> THEN (IF run = <<>> THEN {} ELSE {run})
  ELSE IF Head(str) \in WordChars
       THEN wordRuns(Tail(str), Append(run, toLowerChar(Head(str))))
       ELSE (IF run = <<>> THEN {} ELSE {run}) \cup wordRuns(Tail(str), <<>>)

\* /\b20\d\d\b/.test(t)
hasYearMention(t) ==
  \E w \in wordRuns(t, <<>>) :
    Len(w) = 4 /\ w[1] = "2" /\ w[2] = "0" /\ w[3] \in Digits /\ w[4] \in Digits

comparisonWords == { <<"v","s">>, <<"v","e","r","s","u","s">>, <<"c","o","m","p","a","r","e","d">>, <<"a","g","a","i","n","s","t">> }

applicationWords == { <<"u","s","e">>, <<"u","s","i","n","g">>, <<"a","p","p","l","i","c","a","t","i","o","n">>, <<"a","p","p","l","i","e","d">>, <<"i","m","p","l","e","m","e","n","t">> }

\* titles.some(t => /\b(w1|w2|...)\b/i.test(t))
someTitleHasWord(results, words) ==
  \E i \in DOMAIN results : wordRuns(results[i].title, <<>>) \cap words # {}

\* a question is <<text before the key topic, key topic, text after it>>; the
\* texts before the topic differ pairwise before their last character, so two
\* questions are the same string exactly when the triples are equal
Question(before, topic, after) == <<before, topic, after>>

baseQuestions(intent, keyTopic, aboutLatest) ==
  CASE intent = "research" ->
         << IF aboutLatest
            THEN Question("What are the major challenges facing ", keyTopic, "?")
            ELSE Question("What are the latest developments in ", keyTopic, "?"),
            Question("How does ", keyTopic, " compare to traditional approaches?"),
            Question("What are the practical applications of ", keyTopic, "?"),
            Question("What is the future outlook for ", keyTopic, "?") >>
    [] intent = "technical" ->
         << Question("What are the best practices for implementing ", keyTopic, "?"),
            Question("How can I optimize ", keyTopic, " for better performance?"),
            Question("What common issues might arise when working with ", keyTopic, "?"),
            Question("Which tools are recommended for working with ", keyTopic, "?") >>
    [] intent = "shopping" ->
         << Question("What are the top alternatives to consider for ", keyTopic, "?"),
            Question("How do different brands of ", keyTopic, " compare?"),
            Question("What features should I prioritize when choosing ", keyTopic, "?"),
            Question("What's the price range for high-quality ", keyTopic, "?") >>
    [] intent = "news" ->
         << Question("What are the broader implications of ", keyTopic, "?"),
            Question("How has ", keyTopic, " evolved over the past year?"),
            Question("What might be the next developments in ", keyTopic, "?"),
            Question("How are different industries responding to ", keyTopic, "?") >>
    [] OTHER ->
         << Question("What are the key benefits of ", keyTopic, "?"),
            Question("How is ", keyTopic, " typically implemented or used?"),
            Question("What are common misconceptions about ", keyTopic, "?"),
            Question("How might ", keyTopic, " evolve in the future?") >>

additionalQuestions(q, results, keyTopic) ==
  IF Len(results) = 0 THEN <<>>
  ELSE (IF (\E i \in DOMAIN results : hasYearMention(results[i].title))
           /\ ~includes(toLowerCase(q), <<"h","i","s","t","o","r","y">>)
        THEN <<Question("What is the history and evolution of ", keyTopic, "?")>> ELSE <<>>)
       \o (IF someTitleHasWord(results, comparisonWords)
           THEN <<Question("What are the key differences between competing ", keyTopic,
                           " approaches?")>> ELSE <<>>)
       \o (IF someTitleHasWord(results, applicationWords)
           THEN <<Question("What are some real-world examples of ", keyTopic, " in action?")>>
           ELSE <<>>)

generateDomainSpecificQuestions(results) ==
  LET uniqueDomains == { results[i].domain : i \in DOMAIN results }
  IN (IF "github.com" \in uniqueDomains
      THEN <<Question("How can I implement this in my own project?", <<>>, "")>> ELSE <<>>)
     \o (IF "stackoverflow.com" \in uniqueDomains
         THEN <<Question("What are common issues developers face with this?", <<>>, "")>>
         ELSE <<>>)
     \o (IF "wikipedia.org" \in uniqueDomains
         THEN <<Question("What is the historical context of this topic?", <<>>, "")>>
         ELSE <<>>)

\* [...new Set(allQuestions)]: the first occurrence of each question, in order
RECURSIVE uniqueInOrder(_, _)
uniqueInOrder(seen, rest) ==
  IF rest = <<>> THEN seen
  ELSE IF \E i \in DOMAIN seen : seen[i] = Head(rest)
       THEN uniqueInOrder(seen, Tail(rest))
       ELSE uniqueInOrder(Append(seen, Head(rest)), Tail(rest))

generateFollowUpQuestions(q, results, intent) ==
  LET keyTopic == extractKeyTopic(q)
      lower == toLowerCase(q)
      isQueryAboutLatestDevelopments ==
        \/ includes(lower, <<"l","a","t","e","s","t">>)
        \/ includes(lower, <<"d","e","v","e","l","o","p","m","e","n","t","s">>)
        \/ includes(lower, <<"r","e","c","e","n","t">>)
        \/ includes(lower, <<"b","r","e","a","k","t","h","r","o","u","g","h","s">>)
      base == baseQuestions(intent, keyTopic, isQueryAboutLatestDevelopments)
      allQuestions == SubSeq(base, 1, 2)
                      \o additionalQuestions(q, results, keyTopic)
                      \o generateDomainSpecificQuestions(results)
                      \o SubSeq(base, 3, Len(base))
  IN sliceTo(uniqueInOrder(<<>>, allQuestions), 3)

(***************************************************************************)
(* Prompts: PromptEngine.generateSearchPrompt and the prompts of the route *)
(***************************************************************************)
\* getBasePrompt: prompts
basePrompts ==
  [ simple |->
      "You are a helpful AI assistant that provides clear, concise answers to user questions. Keep your responses simple and easy to understand.",
    detailed |->
      "You are an expert research assistant with deep knowledge across multiple domains. Provide comprehensive, well-structured answers that synthesize information from multiple sources.",
    expert |->
      "You are a highly specialized AI assistant with expert-level knowledge. Provide detailed, technical responses with nuanced analysis and professional insights." ]

\* getIntentSpecificPrompt: prompts
intentPrompts ==
  [ research |->
      [ simple |->
          "Focus on providing factual information with clear explanations.",
        detailed |->
          "Provide an analytical response with proper citations. Focus on accuracy, depth, and presenting multiple perspectives where relevant.",
        expert |->
          "Deliver a scholarly analysis with critical evaluation of sources, methodology discussion, and academic rigor." ],
    technical |->
      [ simple |->
          "Provide step-by-step guidance with clear instructions.",
        detailed |->
          "Provide comprehensive technical guidance with step-by-step procedures, code examples, and best practices.",
        expert |->
          "Deliver expert-level technical analysis with advanced concepts, architectural considerations, and professional recommendations." ],
    shopping |->
      [ simple |->
          "Help compare options and highlight key features.",
        detailed |->
          "Compare options thoroughly, analyze features, pricing, and provide purchasing recommendations with pros/cons.",
        expert |->
          "Provide detailed market analysis, feature comparison matrix, and strategic purchasing advice." ],
    news |->
      [ simple |->
          "Summarize the key facts and recent developments.",
        detailed |->
          "Summarize recent developments with timeline, key facts, and context about significance.",
        expert |->
          "Provide comprehensive news analysis with background context, implications, and expert commentary." ],
    general |->
      [ simple |->
          "Provide a helpful and informative response.",
        detailed |->
          "Provide a comprehensive answer that addresses all aspects of the question.",
        expert |->
          "Deliver an expert-level response with deep analysis and professional insights." ] ]

\* prompts[complexity] || prompts.detailed
getBasePrompt(complexity) ==
  IF complexity \in DOMAIN basePrompts THEN basePrompts[complexity]
  ELSE basePrompts.detailed

\* intentPrompts[complexity] || prompts.general.detailed
getIntentSpecificPrompt(intent, complexity) ==
  IF complexity \in DOMAIN intentPrompts[intent]
  THEN intentPrompts[intent][complexity]
  ELSE intentPrompts.general.detailed

NoSourcesAvailable ==
  "No sources available. Please provide the best answer you can based on your knowledge."

\* one entry of sourcesText in formatSourcesContext
contextEntry(result, index) ==
  [index |-> index, title |-> result.title, url |-> result.url,
   source |-> result.source, relevance |-> result.relevanceScore,
   summary |-> result.snippet, published |-> result.publishedDate]

formatSourcesContext(results) ==
  IF Len(results) = 0 THEN [notice |-> NoSourcesAvailable, sources |-> <<>>]
  ELSE [notice |-> "Sources to reference:",
        sources |-> [i \in DOMAIN results |-> contextEntry(results[i], i)]]

\* a context that keeps the three oldest queries
formatConversationContextOldest(previousQueries) ==
  IF Len(previousQueries) = 0 THEN [notice |-> "", queries |-> <<>>]
  ELSE [notice |-> "Previous conversation context: ",
        queries |-> SubSeq(previousQueries, 1, Min2(3, Len(previousQueries)))]

\* previousQueries.slice(-3).join(', '), '' when there is none
formatConversationContext(previousQueries) ==
  IF Len(previousQueries) = 0 THEN [notice |-> "", queries |-> <<>>]
  ELSE [notice |-> "Previous conversation context: ",
        queries |-> SubSeq(previousQueries, Max2(1, Len(previousQueries) - 2),
                           Len(previousQueries))]

\* the default of the destructuring: complexity = 'detailed' when undefined
complexityOf(context) ==
  IF context.complexity = "" THEN "detailed" ELSE context.complexity

SearchPromptFormat ==
  "Please provide a comprehensive response that: ... End with follow-up questions"

\* a prompt builder that stamps the prompt with the clock
generateSearchPromptDated(context) ==
  [basePrompt |-> getBasePrompt(complexityOf(context)),
   intentSpecificPrompt |-> getIntentSpecificPrompt(context.intent, complexityOf(context)),
   query |-> context.query,
   conversationContext |-> formatConversationContext(context.previousQueries),
   sourcesContext |-> formatSourcesContext(context.results),
   format |-> SearchPromptFormat,
   date |-> now]

generateSearchPrompt(context) ==
  [basePrompt |-> getBasePrompt(complexityOf(context)),
   intentSpecificPrompt |-> getIntentSpecificPrompt(context.intent, complexityOf(context)),
   query |-> context.query,
   conversationContext |-> formatConversationContext(context.previousQueries),
   sourcesContext |-> formatSourcesContext(context.results),
   format |-> SearchPromptFormat]

\* the prompt of config.useSimplifiedPrompt: the text before the query
simplifiedBefore ==
  <<
     "A","n","s","w","e","r"," ","t","h","i","s"," ","q","u","e","s",
     "t","i","o","n",":"," ","\"" >>

\* the prompt of config.useSimplifiedPrompt: the text between the query and the sources
simplifiedBetween ==
  <<
     "\"","\n"," "," "," "," "," "," ","\n","H","e","r","e","'","s"," ",
     "i","n","f","o","r","m","a","t","i","o","n"," ","f","r","o","m",
     " ","s","e","a","r","c","h"," ","r","e","s","u","l","t","s",":",
     "\n" >>

\* the prompt of config.useSimplifiedPrompt: the text after the sources
simplifiedAfter ==
  <<
     "\n","\n","W","r","i","t","e"," ","a"," ","c","l","e","a","r",",",
     " ","c","o","m","p","r","e","h","e","n","s","i","v","e"," ","a",
     "n","s","w","e","r"," ","c","i","t","i","n","g"," ","s","o","u",
     "r","c","e","s"," ","a","s"," ","[","1","]",","," ","[","2","]",
     ","," ","e","t","c","."," ","I","n","c","l","u","d","e"," ","s",
     "p","e","c","i","f","i","c"," ","d","e","t","a","i","l","s"," ",
     "f","r","o","m"," ","e","a","c","h"," ","s","o","u","r","c","e",
     "." >>

\* the ultra-comprehensive prompt: the text before the query
richBefore ==
  <<
     "Y","o","u"," ","a","r","e"," ","a"," ","F","R","I","E","N","D",
     "L","Y",","," ","K","N","O","W","L","E","D","G","E","A","B","L",
     "E"," ","E","X","P","E","R","T"," ","w","i","t","h"," ","a"," ",
     "P","h","D","-","l","e","v","e","l"," ","u","n","d","e","r","s",
     "t","a","n","d","i","n","g"," ","o","f"," ","t","h","e"," ","s",
     "u","b","j","e","c","t"," ","m","a","t","t","e","r","."," ","Y",
     "o","u","r"," ","t","a","s","k"," ","i","s"," ","t","o"," ","c",
     "r","e","a","t","e"," ","a"," ","C","O","N","V","E","R","S","A",
     "T","I","O","N","A","L"," ","y","e","t"," ","C","O","M","P","R",
     "E","H","E","N","S","I","V","E"," ","a","n","s","w","e","r"," ",
     "t","o"," ","t","h","e"," ","f","o","l","l","o","w","i","n","g",
     " ","q","u","e","r","y"," ","u","s","i","n","g"," ","O","N","L",
     "Y"," ","t","h","e"," ","s","o","u","r","c","e","s"," ","p","r",
     "o","v","i","d","e","d",":","\n","\n","Q","U","E","R","Y",":"," ",
     "\"" >>

\* the ultra-comprehensive prompt: the text between the query and the sources
richBetween ==
  <<
     "\"","\n","\n","S","E","A","R","C","H"," ","R","E","S","U","L","T",
     "S",":","\n" >>

\* the ultra-comprehensive prompt: the text after the sources
richAfter ==
  <<
     "\n","\n","C","R","I","T","I","C","A","L"," ","R","E","Q","U","I",
     "R","E","M","E","N","T","S",":","\n","1","."," ","S","t","a","r",
     "t"," ","w","i","t","h"," ","a"," ","F","R","I","E","N","D","L",
     "Y",","," ","C","O","N","V","E","R","S","A","T","I","O","N","A",
     "L"," ","s","u","m","m","a","r","y"," ","w","r","i","t","t","e",
     "n"," ","i","n"," ","H","U","M","A","N","-","L","I","K","E"," ",
     "l","a","n","g","u","a","g","e"," ","(","a","p","p","r","o","x",
     "."," ","1","5","0","-","2","0","0"," ","w","o","r","d","s",")",
     "\n","2","."," ","T","h","e","n"," ","p","r","o","v","i","d","e",
     " ","a","n"," ","E","X","C","E","P","T","I","O","N","A","L","L",
     "Y"," ","C","O","M","P","R","E","H","E","N","S","I","V","E",",",
     " ","I","N","-","D","E","P","T","H"," ","r","e","s","e","a","r",
     "c","h"," ","r","e","p","o","r","t"," ","(","m","i","n","i","m",
     "u","m"," ","8","0","0","-","1","0","0","0"," ","w","o","r","d",
     "s"," ","t","o","t","a","l",")","\n","3","."," ","F","o","r"," ",
     "E","A","C","H"," ","c","l","a","i","m",","," ","f","a","c","t",
     ","," ","o","r"," ","s","t","a","t","e","m","e","n","t",","," ",
     "p","r","o","v","i","d","e"," ","E","X","P","L","I","C","I","T",
     " ","c","i","t","a","t","i","o","n","s"," ","u","s","i","n","g",
     " ","n","u","m","b","e","r","e","d"," ","r","e","f","e","r","e",
     "n","c","e","s"," ","[","1","]",","," ","[","2","]",","," ","e",
     "t","c",".","\n","4","."," ","E","X","T","R","A","C","T"," ","E",
     "V","E","R","Y"," ","R","E","L","E","V","A","N","T"," ","d","e",
     "t","a","i","l",","," ","s","t","a","t","i","s","t","i","c",",",
     " ","f","i","g","u","r","e",","," ","d","a","t","e",","," ","n",
     "a","m","e",","," ","a","n","d"," ","q","u","o","t","e"," ","f",
     "r","o","m"," ","t","h","e"," ","s","o","u","r","c","e","s","\n",
     "5","."," ","S","Y","N","T","H","E","S","I","Z","E"," ","i","n",
     "f","o","r","m","a","t","i","o","n"," ","a","c","r","o","s","s",
     " ","s","o","u","r","c","e","s"," ","t","o"," ","f","o","r","m",
     " ","a"," ","c","o","m","p","l","e","t","e"," ","p","i","c","t",
     "u","r","e","\n","6","."," ","A","N","A","L","Y","Z","E"," ","i",
     "m","p","l","i","c","a","t","i","o","n","s",","," ","s","i","g",
     "n","i","f","i","c","a","n","c","e",","," ","a","n","d"," ","c",
     "o","n","t","e","x","t"," ","f","o","r"," ","e","a","c","h"," ",
     "m","a","j","o","r"," ","p","o","i","n","t","\n","7","."," ","E",
     "X","P","L","A","I","N"," ","c","o","m","p","l","e","x"," ","c",
     "o","n","c","e","p","t","s"," ","w","i","t","h"," ","c","l","e",
     "a","r",","," ","d","e","t","a","i","l","e","d"," ","e","x","p",
     "l","a","n","a","t","i","o","n","s","\n","8","."," ","I","n","c",
     "l","u","d","e"," ","E","X","T","E","N","S","I","V","E"," ","u",
     "s","e"," ","o","f"," ","s","u","b","-","s","e","c","t","i","o",
     "n","s",","," ","b","u","l","l","e","t"," ","p","o","i","n","t",
     "s",","," ","a","n","d"," ","s","t","r","u","c","t","u","r","e",
     "d"," ","f","o","r","m","a","t","t","i","n","g","\n","9","."," ",
     "E","n","d"," ","w","i","t","h"," ","a"," ","N","A","T","U","R",
     "A","L",","," ","H","U","M","A","N","-","L","I","K","E"," ","c",
     "o","n","c","l","u","s","i","o","n"," ","w","i","t","h"," ","a",
     "c","t","i","o","n","a","b","l","e"," ","t","a","k","e","a","w",
     "a","y","s"," ","a","n","d"," ","p","e","r","s","o","n","a","l",
     " ","p","e","r","s","p","e","c","t","i","v","e","\n","1","0",".",
     " ","N","E","V","E","R"," ","i","n","v","e","n","t"," ","f","a",
     "c","t","s"," ","o","r"," ","d","a","t","a"," ","n","o","t"," ",
     "p","r","e","s","e","n","t"," ","i","n"," ","t","h","e"," ","s",
     "o","u","r","c","e","s"," ","-"," ","r","e","l","y"," ","E","X",
     "C","L","U","S","I","V","E","L","Y"," ","o","n"," ","p","r","o",
     "v","i","d","e","d"," ","m","a","t","e","r","i","a","l","s","\n",
     "\n","Y","O","U","R"," ","R","E","S","P","O","N","S","E"," ","M",
     "U","S","T"," ","F","O","L","L","O","W"," ","T","H","I","S"," ",
     "S","T","R","U","C","T","U","R","E",":","\n","\n","#","#"," ","H",
     "e","r","e","'","s"," ","W","h","a","t"," ","Y","o","u"," ","N",
     "e","e","d"," ","t","o"," ","K","n","o","w","\n","[","C","O","N",
     "V","E","R","S","A","T","I","O","N","A","L",","," ","H","U","M",
     "A","N","-","L","I","K","E"," ","s","u","m","m","a","r","y"," ",
     "w","r","i","t","t","e","n"," ","i","n"," ","a"," ","f","r","i",
     "e","n","d","l","y",","," ","h","e","l","p","f","u","l"," ","t",
     "o","n","e","."," ","I","n","c","l","u","d","e"," ","2","-","3",
     " ","k","e","y"," ","i","n","s","i","g","h","t","s"," ","w","i",
     "t","h"," ","c","i","t","a","t","i","o","n","s",","," ","w","r",
     "i","t","t","e","n"," ","a","s"," ","i","f"," ","y","o","u","'",
     "r","e"," ","e","x","p","l","a","i","n","i","n","g"," ","t","o",
     " ","a"," ","f","r","i","e","n","d","."," ","U","s","e"," ","p",
     "e","r","s","o","n","a","l"," ","p","r","o","n","o","u","n","s",
     " ","a","n","d"," ","n","a","t","u","r","a","l"," ","l","a","n",
     "g","u","a","g","e","."," ","A","v","o","i","d"," ","f","o","r",
     "m","a","l"," ","a","c","a","d","e","m","i","c"," ","t","o","n",
     "e"," ","h","e","r","e",".","]","\n","\n","#","#"," ","D","e","t",
     "a","i","l","e","d"," ","R","e","p","o","r","t","\n","\n","#","#",
     "#"," ","B","a","c","k","g","r","o","u","n","d"," ","a","n","d",
     " ","C","o","n","t","e","x","t","\n","[","T","h","o","r","o","u",
     "g","h"," ","b","a","c","k","g","r","o","u","n","d"," ","i","n",
     "f","o","r","m","a","t","i","o","n"," ","w","i","t","h"," ","c",
     "i","t","a","t","i","o","n","s","]","\n","\n","#","#","#"," ","K",
     "e","y"," ","D","e","v","e","l","o","p","m","e","n","t","s"," ",
     "a","n","d"," ","I","n","s","i","g","h","t","s","\n","[","D","e",
     "t","a","i","l","e","d"," ","a","n","a","l","y","s","i","s"," ",
     "o","f"," ","m","a","i","n"," ","p","o","i","n","t","s"," ","w",
     "i","t","h"," ","c","i","t","a","t","i","o","n","s","]","\n","\n",
     "#","#","#"," ","I","m","p","o","r","t","a","n","t"," ","C","o",
     "n","s","i","d","e","r","a","t","i","o","n","s","\n","[","A","n",
     "a","l","y","s","i","s"," ","o","f"," ","n","u","a","n","c","e",
     "s",","," ","d","e","b","a","t","e","s",","," ","o","r"," ","t",
     "e","c","h","n","i","c","a","l"," ","a","s","p","e","c","t","s",
     " ","w","i","t","h"," ","c","i","t","a","t","i","o","n","s","]",
     "\n","\n","#","#","#"," ","E","x","p","e","r","t"," ","A","n","a",
     "l","y","s","i","s","\n","[","S","y","n","t","h","e","s","i","s",
     " ","o","f"," ","i","n","f","o","r","m","a","t","i","o","n"," ",
     "w","i","t","h"," ","d","e","e","p","e","r"," ","i","n","s","i",
     "g","h","t","s"," ","a","n","d"," ","c","i","t","a","t","i","o",
     "n","s","]","\n","\n","#","#"," ","K","e","y"," ","T","a","k","e",
     "a","w","a","y","s","\n","-"," ","[","C","l","e","a","r","l","y",
     " ","e","x","p","l","a","i","n","e","d"," ","f","i","n","d","i",
     "n","g"," ","1"," ","w","i","t","h"," ","c","i","t","a","t","i",
     "o","n","s","]","\n","-"," ","[","C","l","e","a","r","l","y"," ",
     "e","x","p","l","a","i","n","e","d"," ","f","i","n","d","i","n",
     "g"," ","2"," ","w","i","t","h"," ","c","i","t","a","t","i","o",
     "n","s","]","\n","-"," ","[","C","l","e","a","r","l","y"," ","e",
     "x","p","l","a","i","n","e","d"," ","f","i","n","d","i","n","g",
     " ","3"," ","w","i","t","h"," ","c","i","t","a","t","i","o","n",
     "s","]","\n","-"," ","[","C","l","e","a","r","l","y"," ","e","x",
     "p","l","a","i","n","e","d"," ","f","i","n","d","i","n","g"," ",
     "4"," ","w","i","t","h"," ","c","i","t","a","t","i","o","n","s",
     "]","\n","-"," ","[","C","l","e","a","r","l","y"," ","e","x","p",
     "l","a","i","n","e","d"," ","f","i","n","d","i","n","g"," ","5",
     " ","w","i","t","h"," ","c","i","t","a","t","i","o","n","s","]",
     "\n","\n","#","#"," ","I","n"," ","C","o","n","c","l","u","s","i",
     "o","n","\n","[","A"," ","N","A","T","U","R","A","L",","," ","C",
     "O","N","V","E","R","S","A","T","I","O","N","A","L"," ","c","o",
     "n","c","l","u","s","i","o","n"," ","t","h","a","t"," ","s","u",
     "m","m","a","r","i","z","e","s"," ","t","h","e"," ","m","a","i",
     "n"," ","p","o","i","n","t","s"," ","a","n","d"," ","p","r","o",
     "v","i","d","e","s"," ","a","c","t","i","o","n","a","b","l","e",
     " ","i","n","s","i","g","h","t","s"," ","o","r"," ","p","e","r",
     "s","o","n","a","l"," ","p","e","r","s","p","e","c","t","i","v",
     "e","."," ","W","r","i","t","e"," ","l","i","k","e"," ","a"," ",
     "h","e","l","p","f","u","l"," ","h","u","m","a","n"," ","e","x",
     "p","e","r","t"," ","w","o","u","l","d",","," ","u","s","i","n",
     "g"," ","w","a","r","m",","," ","a","p","p","r","o","a","c","h",
     "a","b","l","e"," ","l","a","n","g","u","a","g","e"," ","w","h",
     "i","l","e"," ","m","a","i","n","t","a","i","n","i","n","g"," ",
     "a","u","t","h","o","r","i","t","y","."," ","1","-","2"," ","p",
     "a","r","a","g","r","a","p","h","s",".","]","\n","\n","#","#"," ",
     "S","o","u","r","c","e","s"," ","R","e","f","e","r","e","n","c",
     "e","d","\n","-"," ","[","1","]"," ","S","o","u","r","c","e"," ",
     "n","a","m","e"," ","a","n","d"," ","d","e","t","a","i","l","s",
     "\n","-"," ","[","2","]"," ","S","o","u","r","c","e"," ","n","a",
     "m","e"," ","a","n","d"," ","d","e","t","a","i","l","s","\n",".",
     ".",".","\n","\n","R","E","M","E","M","B","E","R",":"," ","Y","o",
     "u","r"," ","r","e","s","p","o","n","s","e"," ","m","u","s","t",
     " ","b","e","g","i","n"," ","a","n","d"," ","e","n","d"," ","i",
     "n"," ","a"," ","F","R","I","E","N","D","L","Y",","," ","C","O",
     "N","V","E","R","S","A","T","I","O","N","A","L"," ","t","o","n",
     "e"," ","l","i","k","e"," ","a"," ","h","e","l","p","f","u","l",
     " ","h","u","m","a","n"," ","e","x","p","e","r","t"," ","w","o",
     "u","l","d"," ","u","s","e",","," ","w","h","i","l","e"," ","t",
     "h","e"," ","m","i","d","d","l","e"," ","d","e","t","a","i","l",
     "e","d"," ","r","e","p","o","r","t"," ","s","e","c","t","i","o",
     "n"," ","s","h","o","u","l","d"," ","b","e"," ","C","O","M","P",
     "R","E","H","E","N","S","I","V","E",","," ","e","x","t","e","n",
     "s","i","v","e","l","y"," ","c","i","t","e","d",","," ","a","n",
     "d"," ","a","n","a","l","y","z","e"," ","t","h","e"," ","t","o",
     "p","i","c"," ","f","r","o","m"," ","m","u","l","t","i","p","l",
     "e"," ","a","n","g","l","e","s","." >>

\* simplifiedPrompt, the prompt of the fallback call: the text before the query
retryBefore ==
  <<
     "A","n","s","w","e","r"," ","t","h","i","s"," ","q","u","e","s",
     "t","i","o","n"," ","i","n"," ","a"," ","f","r","i","e","n","d",
     "l","y",","," ","c","o","n","v","e","r","s","a","t","i","o","n",
     "a","l"," ","w","a","y"," ","w","h","i","l","e"," ","p","r","o",
     "v","i","d","i","n","g"," ","c","o","m","p","r","e","h","e","n",
     "s","i","v","e"," ","i","n","f","o","r","m","a","t","i","o","n",
     ":"," ","\"" >>

\* simplifiedPrompt, the prompt of the fallback call: the text between the query and the sources
retryBetween ==
  <<
     "\"","."," ","\n"," "," "," "," "," "," "," "," "," "," ","\n","U",
     "s","e"," ","t","h","e","s","e"," ","s","e","a","r","c","h"," ",
     "s","n","i","p","p","e","t","s"," ","a","s"," ","y","o","u","r",
     " ","O","N","L","Y"," ","s","o","u","r","c","e","s"," ","o","f",
     " ","i","n","f","o","r","m","a","t","i","o","n",":","\n" >>

\* simplifiedPrompt, the prompt of the fallback call: the text after the sources
retryAfter ==
  <<
     "\n","\n","C","R","I","T","I","C","A","L"," ","R","E","Q","U","I",
     "R","E","M","E","N","T","S",":","\n","-"," ","S","t","a","r","t",
     " ","w","i","t","h"," ","a"," ","F","R","I","E","N","D","L","Y",
     ","," ","C","O","N","V","E","R","S","A","T","I","O","N","A","L",
     " ","s","u","m","m","a","r","y"," ","(","a","b","o","u","t"," ",
     "1","5","0"," ","w","o","r","d","s",")","\n","-"," ","T","h","e",
     "n"," ","p","r","o","v","i","d","e"," ","a"," ","T","H","O","R",
     "O","U","G","H"," ","a","n","a","l","y","s","i","s"," ","(","m",
     "i","n","i","m","u","m"," ","5","0","0"," ","w","o","r","d","s",
     " ","t","o","t","a","l",")","\n","-"," ","E","x","t","r","a","c",
     "t"," ","a","l","l"," ","r","e","l","e","v","a","n","t"," ","f",
     "a","c","t","s",","," ","f","i","g","u","r","e","s",","," ","d",
     "a","t","e","s",","," ","a","n","d"," ","q","u","o","t","e","s",
     " ","f","r","o","m"," ","t","h","e"," ","s","o","u","r","c","e",
     "s","\n","-"," ","C","i","t","e"," ","s","o","u","r","c","e","s",
     " ","u","s","i","n","g"," ","[","1","]",","," ","[","2","]",",",
     " ","e","t","c","."," ","a","f","t","e","r"," ","E","A","C","H",
     " ","s","t","a","t","e","m","e","n","t"," ","o","r"," ","c","l",
     "a","i","m","\n","-"," ","U","s","e"," ","f","o","r","m","a","t",
     "t","i","n","g"," ","w","i","t","h"," ","s","e","c","t","i","o",
     "n","s"," ","a","n","d"," ","s","u","b","s","e","c","t","i","o",
     "n","s","\n","-"," ","P","r","o","v","i","d","e"," ","d","e","t",
     "a","i","l","e","d"," ","a","n","a","l","y","s","i","s"," ","a",
     "n","d"," ","c","o","n","t","e","x","t"," ","f","o","r"," ","m",
     "a","j","o","r"," ","p","o","i","n","t","s","\n","-"," ","E","n",
     "d"," ","w","i","t","h"," ","a"," ","n","a","t","u","r","a","l",
     ","," ","c","o","n","v","e","r","s","a","t","i","o","n","a","l",
     " ","c","o","n","c","l","u","s","i","o","n","\n","-"," ","N","e",
     "v","e","r"," ","i","n","v","e","n","t"," ","f","a","c","t","s",
     " ","n","o","t"," ","p","r","e","s","e","n","t"," ","i","n"," ",
     "t","h","e"," ","s","o","u","r","c","e","s","\n","\n","Y","O","U",
     "R"," ","R","E","S","P","O","N","S","E"," ","M","U","S","T"," ",
     "I","N","C","L","U","D","E",":","\n","1","."," ","\"","H","e","r",
     "e","'","s"," ","W","h","a","t"," ","Y","o","u"," ","N","e","e",
     "d"," ","t","o"," ","K","n","o","w","\""," ","-"," ","a"," ","f",
     "r","i","e","n","d","l","y",","," ","c","o","n","v","e","r","s",
     "a","t","i","o","n","a","l"," ","s","u","m","m","a","r","y","\n",
     "2","."," ","D","e","t","a","i","l","e","d"," ","R","e","p","o",
     "r","t"," ","(","w","i","t","h"," ","m","u","l","t","i","p","l",
     "e"," ","s","u","b","s","e","c","t","i","o","n","s",")","\n","3",
     "."," ","K","e","y"," ","T","a","k","e","a","w","a","y","s"," ",
     "w","i","t","h"," ","c","i","t","a","t","i","o","n","s","\n","4",
     "."," ","A"," ","c","o","n","v","e","r","s","a","t","i","o","n",
     "a","l"," ","c","o","n","c","l","u","s","i","o","n"," ","w","i",
     "t","h"," ","p","e","r","s","o","n","a","l"," ","p","e","r","s",
     "p","e","c","t","i","v","e","\n","5","."," ","C","o","m","p","l",
     "e","t","e"," ","S","o","u","r","c","e","s"," ","s","e","c","t",
     "i","o","n","\n","\n","W","r","i","t","e"," ","l","i","k","e"," ",
     "a"," ","h","e","l","p","f","u","l"," ","h","u","m","a","n"," ",
     "e","x","p","e","r","t"," ","w","o","u","l","d",","," ","u","s",
     "i","n","g"," ","w","a","r","m",","," ","a","p","p","r","o","a",
     "c","h","a","b","l","e"," ","l","a","n","g","u","a","g","e"," ",
     "w","h","i","l","e"," ","s","t","i","l","l"," ","p","r","o","v",
     "i","d","i","n","g"," ","t","h","o","r","o","u","g","h"," ","i",
     "n","f","o","r","m","a","t","i","o","n","." >>

\* config.useSimplifiedPrompt: USE_SIMPLIFIED_PROMPT || false
useSimplifiedPrompt == FALSE

\* a prompt of the route: the text of its template around the query and the
\* sources
Prompt(before, q, between, sources, after) ==
  [before |-> before, query |-> q, between |-> between, sources |-> sources,
   after |-> after]

NoPrompt == Prompt(<<>>, <<>>, <<>>, <<>>, <<>>)

\* route.ts 316-344: one entry of sourcesText; the domain is the hostname, or
\* the source when new URL throws; a relevanceScore of 0 prints as 'Unknown'
sourceEntry(result, index) ==
  [index |-> index, title |-> result.title, url |-> result.url,
   domain |-> IF result.url.ok THEN result.url.host ELSE result.source,
   relevance |-> [known |-> result.relevanceScore # 0,
                  percent |-> result.relevanceScore],
   dateInfo |-> result.publishedDate, content |-> result.snippet]

\* `[${i+1}] ${r.title}\n${r.url}\n${r.snippet}`
shortEntry(result, index) ==
  [index |-> index, title |-> result.title, url |-> result.url,
   content |-> result.snippet]

\* route.ts 346-413
directPrompt(q, limitedResults, simplified) ==
  IF simplified
  THEN Prompt(simplifiedBefore, q, simplifiedBetween,
              [i \in DOMAIN limitedResults |-> shortEntry(limitedResults[i], i)],
              simplifiedAfter)
  ELSE Prompt(richBefore, q, richBetween,
              [i \in DOMAIN limitedResults |-> sourceEntry(limitedResults[i], i)],
              richAfter)

\* route.ts 468-492: the prompt of the fallback call, with three sources
simplifiedPrompt(q, limitedResults) ==
  Prompt(retryBefore, q, retryBetween,
         [i \in DOMAIN sliceTo(limitedResults, 3) |-> shortEntry(limitedResults[i], i)],
         retryAfter)

\* the fixed text and the query of a prompt, lower-cased
promptText(p) == toLowerCase(p.before \o p.query \o p.between \o p.after)

(***************************************************************************)
(* Search route: request bodies                                            *)
(*                                                                         *)
(* A body is [json, queryType, query, intent]: whether request.json()      *)
(* parses it, the JavaScript type of body.query ("undefined" when the      *)
(* field is missing), the query as a sequence of characters, and the       *)
(* optional intent ("" when missing).                                      *)
(***************************************************************************)
MAX_RESULTS_TO_PROCESS == 8

\* z.string().min(1).max(500)
QueryMaxLength == 500

Body(json, queryType, query, intent) ==
  [json |-> json, queryType |-> queryType, query |-> query, intent |-> intent]

QuerySolar == <<"s","o","l","a","r">>

QueryPadded == <<" ","a","i"," ">>

QueryBlank == <<" "," "," ">>

QueryFix == <<"h","o","w"," ","t","o"," ","f","i","x"," ","p","y","t","h","o","n"," ","e","r","r","o","r">>

QueryLatest == <<"L","a","t","e","s","t"," ","A","I">>

QueryDebug == <<"d","e","b","u","g"," ","a","p","i">>

QueryOfLength(n) == [i \in 1..n |-> "a"]

IntentEnum == {"research", "shopping", "news", "technical", "general"}

Bodies ==
  { Body(TRUE, "string", QueryPadded, "research"),
    Body(TRUE, "string", QueryDebug, "general"),
    Body(TRUE, "string", QueryLatest, ""),
    Body(TRUE, "string", QueryOfLength(QueryMaxLength + 1), ""),
    Body(TRUE, "string", QueryBlank, ""),
    Body(TRUE, "string", <<>>, ""),
    Body(TRUE, "undefined", <<>>, ""),
    Body(TRUE, "number", <<>>, ""),
    Body(TRUE, "string", QuerySolar, "bogus"),
    Body(FALSE, "undefined", <<>>, "") }

\* the emptiness test without the trim
queryIsEmptyUntrimmed(b) ==
  b.queryType = "undefined" \/ (b.queryType = "string" /\ b.query = <<>>)

\* !body.query || body.query.trim() === ''   (a non-string query is truthy here
\* and has no trim method)
queryIsEmpty(b) ==
  b.queryType = "undefined" \/ (b.queryType = "string" /\ trim(b.query) = <<>>)

\* searchQuerySchema.parse(body) succeeds
schemaAccepts(b) ==
  /\ b.queryType = "string"
  /\ Len(b.query) >= 1 /\ Len(b.query) <= QueryMaxLength
  /\ b.intent = "" \/ b.intent \in IntentEnum

(***************************************************************************)
(* Search route: responses                                                 *)
(***************************************************************************)
NoResponse ==
  [status |-> 0, error |-> "", details |-> "", answer |-> EmptyText,
   sources |-> <<>>, followUpQuestions |-> <<>>, confidence |-> 0,
   queryIntent |-> "", sourcesUsed |-> <<>>]

\* NextResponse.json({error, details, ...}, {status})
errorResponse(status, error, details) ==
  [NoResponse EXCEPT !.status = status, !.error = error, !.details = details]

RECURSIVE successfulSources(_)
successfulSources(apiResponses) ==
  IF apiResponses = <<>> THEN <<>>
  ELSE (IF Head(apiResponses).success THEN <<Head(apiResponses).source>> ELSE <<>>)
       \o successfulSources(Tail(apiResponses))

\* a response that carries every merged result
okResponseAllSources(answer, merged, followUpQuestions, q, detectedIntent, apiResponses) ==
  [status |-> 200, error |-> "", details |-> "", answer |-> answer,
   sources |-> merged, followUpQuestions |-> followUpQuestions,
   confidence |-> q.confidence, queryIntent |-> detectedIntent,
   sourcesUsed |-> successfulSources(apiResponses)]

\* NextResponse.json({answer, sources, confidence, ...}) : status 200
okResponse(answer, merged, followUpQuestions, q, detectedIntent, apiResponses) ==
  [status |-> 200, error |-> "", details |-> "", answer |-> answer,
   sources |-> sliceTo(merged, 6), followUpQuestions |-> followUpQuestions,
   confidence |-> q.confidence, queryIntent |-> detectedIntent,
   sourcesUsed |-> successfulSources(apiResponses)]

\* `let quality = { quality: 'medium', confidence: 50 }` at the top of POST
InitialQuality == [quality |-> "medium", confidence |-> 50, issues |-> <<>>]

(***************************************************************************)
(* Provider payloads                                                       *)
(***************************************************************************)
RawWiki == Raw(TitleBit, Url("wikipedia.org", PathQuantum), 0, NoDate, "")

RawFish == Raw(TitleFish, Url("example.com", PathAbs), 30, DateOn(99), "")

RawBad == Raw(TitleAid, BadUrl, 30, NoDate, "")

\* nine items on nine hosts whose titles are far from one another
RawMany ==
  << Raw(<<"C"," ","v","s"," ","G","o"," ","2","0","2","4">>, Url("github.com", PathAbs), 45, DateOn(99), ""),
     Raw(<<"U","s","i","n","g"," ","X">>, Url("stackoverflow.com", PathAbs), 40, DateOn(95), ""),
     Raw(<<"T","i","d","e">>, Url("nature.com", PathAbs), 35, DateOn(80), ""),
     Raw(<<"P","r","i","m","e">>, Url("arxiv.org", PathAbs), 30, DateOn(50), ""),
     Raw(<<"B","r","e","a","d">>, Url("medium.com", PathAbs), 25, NoDate, ""),
     Raw(<<"C","h","e","s","s">>, Url("reddit.com", PathAbs), 20, NoDate, ""),
     Raw(<<"S","k","y">>, Url("quora.com", PathAbs), 15, NoDate, ""),
     Raw(<<"L","o","-","f","i">>, Url("youtube.com", PathAbs), 10, NoDate, ""),
     Raw(<<"Z","e","b","r","a">>, Url("example.org", PathAbs), 5, NoDate, "") >>

Payloads == { <<>>, <<RawWiki>>, <<RawFish, RawWiki>>, <<RawBad>>, RawMany }

\* what a network call can do
NetOutcomes ==
  { [kind |-> "timeout", payload |-> <<>>], [kind |-> "error", payload |-> <<>>] }
  \cup { [kind |-> "ok", payload |-> p] : p \in Payloads }

NoOutcome == [kind |-> "none", payload |-> <<>>]

Refused == [kind |-> "refused", payload |-> <<>>]

\* what a call of the model can do
NoAiText == AiText("none", 0, 0, 0, 0, FALSE, FALSE, FALSE)

(***************************************************************************)
(* State                                                                   *)
(***************************************************************************)
\* longest run of requests served one after the other
MaxRequests == 1

VARIABLES
  fnInput,             \* pure-function runs: the input drawn
  fnName,              \* pure-function runs: the function applied, "none" before
  fnOutput,            \* pure-function runs: what it returned
  envValid,            \* process.env holds the four keys of runtimeEnvSchema
  rateLimitTracker,    \* search-apis: source -> window
  metrics,             \* PerformanceMonitor.metrics
  served,              \* requests received so far
  pc,                  \* where the POST handler of the current request stands
  body,                \* the body of the current request
  call,                \* provider -> "none" | "refused" | "inflight" | "settled"
  fate,                \* provider -> what its call did
  networkCalls,        \* provider -> axios.get calls made for this request
  llmCalls,            \* model.generateContent calls made for this request
  llmPrompt,           \* the prompt of the call in flight, NoPrompt when none
  llmOutcome,          \* how the last settled call of the model ended
  llmSilent,           \* the fallback call in flight will never come back
  apiResponses,        \* route: apiResponses
  anySuccessfulSearch, \* route: anySuccessfulSearch
  mergedResults,       \* route: mergedResults
  quality,             \* route: quality
  aiResponse,          \* route: the text the answer is built from
  response,            \* the HTTP response, NoResponse before it is sent
  handlers             \* concurrent requests: request id -> where its handler stands

pureVars == <<fnInput, fnName, fnOutput>>

serverVars == <<envValid, now, rateLimitTracker, metrics, served>>

requestVars ==
  <<pc, body, call, fate, networkCalls, llmCalls, llmPrompt, llmOutcome,
    llmSilent, apiResponses,
    anySuccessfulSearch, mergedResults, quality, aiResponse, response,
    handlers>>

vars == <<pureVars, serverVars, requestVars>>

NoBody == Body(FALSE, "undefined", <<>>, "")

NoInput == [kind |-> "none", v |-> <<>>, source |-> ""]

\* no handler is suspended: requests are served one at a time
NoHandlers == <<>>

\* the request variables before a request arrives
RequestIdle ==
  /\ body = NoBody
  /\ call = [p \in ProviderSet |-> "none"]
  /\ fate = [p \in ProviderSet |-> NoOutcome]
  /\ networkCalls = [p \in ProviderSet |-> 0]
  /\ llmCalls = 0
  /\ llmPrompt = NoPrompt
  /\ llmOutcome = "none"
  /\ llmSilent = FALSE
  /\ apiResponses = <<>>
  /\ anySuccessfulSearch = FALSE
  /\ mergedResults = <<>>
  /\ quality = InitialQuality
  /\ aiResponse = NoAiText
  /\ response = NoResponse

\* a window of the tracker left by earlier requests: none, one request short of
\* the budget, or exhausted
Windows(source) ==
  { NoWindow,
    [present |-> TRUE, count |-> rateLimitRequests(source) - 1, resetTime |-> Today + MonthPeriod],
    [present |-> TRUE, count |-> rateLimitRequests(source), resetTime |-> Today + MonthPeriod] }

(***************************************************************************)
(* Search route: the POST handler, one action for each stretch of code     *)
(* between two awaits.  One request is in flight at a time.  The           *)
(* AbortControllers of the route are not modelled: searchBrave and         *)
(* searchSerpAPI take no signal, their deadline is the timeout of the      *)
(* axios call, which is one of the outcomes of ProviderSettle.             *)
(***************************************************************************)
Init ==
  /\ fnInput = NoInput /\ fnName = "pipeline" /\ fnOutput = <<>>
  /\ envValid \in BOOLEAN
  /\ now = Today
  /\ rateLimitTracker \in [ProviderSet -> Windows("brave") \cup Windows("serpapi")]
  /\ \A p \in ProviderSet : rateLimitTracker[p] \in Windows(p)
  /\ metrics = <<>>
  /\ served = 0
  /\ pc = "idle"
  /\ RequestIdle
  /\ handlers = NoHandlers

\* validatedQuery.query
query == body.query

\* mergedResults.slice(0, MAX_RESULTS_TO_PROCESS)
limitedOf(merged) == sliceTo(merged, MAX_RESULTS_TO_PROCESS)

\* the messages of the errors the catch block of POST can receive; none of
\* them contains 'timeout', 'timed out', 'generate', 'AI' or 'Gemini'
MissingKeysMessage ==
  "Missing required API keys. Please check your environment configuration."

caughtMessage(b) ==
  IF ~b.json THEN "Unexpected token in JSON"
  ELSE IF b.queryType # "string" THEN "body.query.trim is not a function"
  ELSE IF Len(b.query) > QueryMaxLength THEN "Query too long"
  ELSE "Invalid enum value"

\* the catch block of POST (route.ts 664-722): status, error and details
catchBlock(message) ==
  IF message = MissingKeysMessage
  THEN errorResponse(500, "API configuration error",
         "Missing or invalid API keys. Please check the environment configuration.")
  ELSE errorResponse(500, "Search failed", message)

\* the request ends in the catch block
Fail(message) ==
  /\ response' = catchBlock(message)
  /\ metrics' = timerDone(metrics, "search_api_total", FALSE)
  /\ pc' = "done"

\* the request ends with the 400 of the emptiness test; perfTimer is not called
RejectEmpty ==
  /\ response' = errorResponse(400, "Search query cannot be empty", "")
  /\ metrics' = metrics
  /\ pc' = "done"

\* the state of a call after the synchronous part of searchBrave/searchSerpAPI
started(check) == IF check.allowed THEN "inflight" ELSE "refused"

\* route.ts 186-265: from the arrival of the request to the await of
\* Promise.allSettled, or to the response when the request is turned down
PostReceive(b, elapsed) ==
  /\ pc \in {"idle", "done"}
  /\ served < MaxRequests
  /\ served' = served + 1
  /\ now' = now + elapsed
  /\ body' = b
  /\ llmCalls' = 0
  /\ llmPrompt' = NoPrompt
  /\ llmOutcome' = "none"
  /\ llmSilent' = FALSE
  /\ apiResponses' = <<>>
  /\ anySuccessfulSearch' = FALSE
  /\ mergedResults' = <<>>
  /\ quality' = InitialQuality
  /\ aiResponse' = NoAiText
  /\ UNCHANGED <<pureVars, handlers, envValid>>
  /\ IF ~envValid \/ ~b.json \/ queryIsEmpty(b) \/ ~schemaAccepts(b)
     THEN /\ IF ~envValid THEN Fail(MissingKeysMessage)
             ELSE IF ~b.json THEN Fail(caughtMessage(b))
             ELSE IF queryIsEmpty(b) THEN RejectEmpty
             ELSE Fail(caughtMessage(b))
          /\ call' = [p \in ProviderSet |-> "none"]
          /\ fate' = [p \in ProviderSet |-> NoOutcome]
          /\ networkCalls' = [p \in ProviderSet |-> 0]
          /\ UNCHANGED rateLimitTracker
     ELSE LET braveCheck == checkRateLimit(rateLimitTracker, "brave", now')
              serpCheck  == checkRateLimit(braveCheck.tracker, "serpapi", now')
              checks     == [p \in ProviderSet |->
                               IF p = "brave" THEN braveCheck ELSE serpCheck]
          IN /\ rateLimitTracker' = serpCheck.tracker
             /\ call' = [p \in ProviderSet |-> started(checks[p])]
             /\ fate' = [p \in ProviderSet |->
                           IF checks[p].allowed THEN NoOutcome ELSE Refused]
             /\ networkCalls' = [p \in ProviderSet |->
                                   IF checks[p].allowed THEN 1 ELSE 0]
             /\ response' = NoResponse
             /\ metrics' = metrics
             /\ pc' = "searching"

\* a refused call has settled before the handler yields: its callback runs
\* before that of any network call, brave's before serpapi's
maysettle(p) ==
  /\ call[p] \in {"refused", "inflight"}
  /\ call[p] = "inflight" => \A q \in ProviderSet : call[q] # "refused"
  /\ (call[p] = "refused" /\ p = "serpapi") => call["brave"] # "refused"

\* the .then callback of bravePromise / serpPromise (route.ts 233-241, 249-257)
thenCallback(p, net) ==
  LET result == searchResponse(p, net)
  IN /\ anySuccessfulSearch' = TRUE
     /\ apiResponses' = Append(apiResponses,
          [result EXCEPT !.results = sliceTo(result.results, MAX_RESULTS_TO_PROCESS)])
     /\ call' = [call EXCEPT ![p] = "settled"]
     /\ fate' = [fate EXCEPT ![p] = net]

\* the call of provider p comes back (search-apis 71-117, 120-162) and the
\* callback of the route runs
\* a provider call always settles: refused at once, answered, or cut off by
\* the timeout of its axios request
providerSettles(p) == pc = "searching" /\ maysettle(p)

ProviderSettle(p) ==
  /\ providerSettles(p)
  /\ IF call[p] = "refused" THEN thenCallback(p, Refused)
     ELSE \E net \in NetOutcomes : thenCallback(p, net)
  /\ UNCHANGED <<pureVars, handlers, serverVars, pc, body, networkCalls, llmCalls,
                 llmPrompt, llmOutcome, llmSilent, mergedResults, quality,
                 aiResponse, response>>

\* a barrier that opens at the first call to come back
anySettled == \E p \in ProviderSet : call[p] = "settled"

\* Promise.allSettled([bravePromise, serpPromise]) has resolved
allSettled == \A p \in ProviderSet : call[p] = "settled"

\* the response of route.ts 268-279, used when no callback has run
FallbackResponse == failedResponse("fallback", "All search APIs timed out or failed")

\* route.ts 546-662: timers, validation of the answer and the 200 response
Respond(ai, merged, q, responses, buffer) ==
  /\ aiResponse' = ai
  /\ metrics' = timerDone(timerDone(buffer, "search_api_ai_processing", TRUE),
                          "search_api_total", TRUE)
  /\ LET detectedIntent == detectQueryIntent(query)
         followUpQuestions ==
           generateFollowUpQuestions(query, limitedOf(merged), detectedIntent)
     IN response' = okResponse(validateAnswer(ai, query, merged, limitedOf(merged)),
                               merged, followUpQuestions, q, detectedIntent, responses)
  /\ pc' = "done"

\* an outer catch that lets the error reach the catch block of POST
aiErrorRethrown(merged, q, responses, buffer) ==
  /\ aiResponse' = aiResponse
  /\ metrics' = timerDone(buffer, "search_api_total", FALSE)
  /\ response' = catchBlock("getGenerativeModel failed")
  /\ pc' = "done"

\* the outer catch (aiError) of route.ts 518-522, and the rest of the handler
aiErrorCatch(merged, q, responses, buffer) ==
  Respond(aiErrorNotice(query), merged, q, responses, buffer)

\* the await of Promise.allSettled (route.ts 265) resumes
barrierOpens == pc = "searching" /\ allSettled

\* route.ts 266-438: after the barrier, merge, assess, build the prompt and
\* call the model; getGenerativeModel belongs to the SDK and may throw, which
\* the outer catch (aiError) turns into a notice
AfterAllSettled ==
  /\ barrierOpens
  /\ LET responses == IF ~anySuccessfulSearch THEN <<FallbackResponse>> ELSE apiResponses
         merged    == mergeSearchResults(responses, now)
         q         == assessResultQuality(merged)
         buffer    == timerDone(timerDone(timerDone(metrics,
                        "search_api_external_calls", TRUE),
                        "search_api_merge_results", TRUE),
                        "search_api_intent_detection", TRUE)
     IN /\ apiResponses' = responses
        /\ mergedResults' = merged
        /\ quality' = q
        /\ \/ /\ llmCalls' = llmCalls + 1
              /\ llmPrompt' = directPrompt(query, limitedOf(merged), useSimplifiedPrompt)
              /\ metrics' = buffer
              /\ pc' = "llm_first"
              /\ UNCHANGED <<aiResponse, response>>
           \/ /\ aiErrorCatch(merged, q, responses, buffer)
              /\ UNCHANGED <<llmCalls, llmPrompt>>
  /\ UNCHANGED <<pureVars, handlers, envValid, now, rateLimitTracker, served, body, call,
                 fate, networkCalls, anySuccessfulSearch, llmOutcome, llmSilent>>

\* the race of route.ts 443 is always decided: by the call, or by the timer
\* of 30 seconds
firstSettles == pc = "llm_first"

\* route.ts 439-459: the race of the first model call with the 30 s timer is
\* decided; a text ends the chain, a rejection or the timer starts the
\* fallback call with the simplified prompt
LlmFirstSettle ==
  /\ firstSettles
  /\ \/ \E text \in LlmTexts :
          /\ Respond(text, mergedResults, quality, apiResponses, metrics)
          /\ llmPrompt' = NoPrompt
          /\ llmOutcome' = "text"
          /\ UNCHANGED <<llmCalls, llmSilent>>
     \/ \E failure \in {"error", "timeout"}, silent \in BOOLEAN :
          /\ llmOutcome' = failure
          /\ llmCalls' = llmCalls + 1
          /\ llmPrompt' = simplifiedPrompt(query, limitedOf(mergedResults))
          /\ llmSilent' = silent
          /\ pc' = "llm_fallback"
          /\ UNCHANGED <<aiResponse, response, metrics>>
  /\ UNCHANGED <<pureVars, handlers, envValid, now, rateLimitTracker, served, body, call,
                 fate, networkCalls, apiResponses, anySuccessfulSearch,
                 mergedResults, quality>>

\* the await of the fallback call (route.ts 495) resumes only when the call
\* comes back: no timer is raced with it
fallbackSettles == pc = "llm_fallback" /\ ~llmSilent

\* what the fallback call can come back with
FallbackOutcomes ==
  { [kind |-> "text", text |-> t] : t \in LlmTexts }
  \cup { [kind |-> "error", text |-> NoAiText] }

\* a fallback failure that is left to the outer catch (aiError)
fallbackAnswerNotice(outcome, q, limitedResults) ==
  IF outcome.kind = "text" THEN outcome.text ELSE aiErrorNotice(q)

\* route.ts 494-515: the text of the fallback call, or the titles template
\* of the catch (fallbackError)
fallbackAnswer(outcome, q, limitedResults) ==
  IF outcome.kind = "text" THEN outcome.text
  ELSE titlesTemplate(q, limitedResults)

\* route.ts 460-517: the fallback call, which is not raced with a timer,
\* comes back with a text or rejects; a call that never comes back leaves
\* the handler at its await
LlmFallbackSettle ==
  /\ fallbackSettles
  /\ \E outcome \in FallbackOutcomes :
       /\ Respond(fallbackAnswer(outcome, query, limitedOf(mergedResults)),
                  mergedResults, quality, apiResponses, metrics)
       /\ llmOutcome' = outcome.kind
  /\ llmPrompt' = NoPrompt
  /\ UNCHANGED <<pureVars, handlers, envValid, now, rateLimitTracker, served, body, call,
                 fate, networkCalls, llmCalls, llmSilent, apiResponses,
                 anySuccessfulSearch, mergedResults, quality>>

Next ==
  \/ \E b \in Bodies, elapsed \in {0, MonthPeriod + 1} : PostReceive(b, elapsed)
  \/ \E p \in ProviderSet : ProviderSettle(p)
  \/ AfterAllSettled
  \/ LlmFirstSettle
  \/ LlmFallbackSettle

Spec == Init /\ [][Next]_vars

(***************************************************************************)
(* Pure functions applied to drawn inputs                                  *)
(***************************************************************************)
\* result lists for the prompt builders: none, one, and more than the three
\* the fallback prompt takes
PromptResults == { <<>>, <<ResBit>>, <<ResBit, ResBid, ResAid, ResSameUrl>> }

\* conversation histories: none, one query, more than the three that are kept
PromptHistories ==
  { <<>>, <<QuerySolar>>, <<QuerySolar, QueryFix, QueryDebug, QueryLatest>> }

\* PromptContext; complexity "" is an undefined complexity
ContextInputs ==
  { [kind |-> "context", source |-> "",
     v |-> <<[query |-> q, results |-> r, intent |-> i, previousQueries |-> h,
              complexity |-> c]>>] :
      q \in {QueryFix, QueryBlank}, r \in PromptResults, i \in IntentEnum,
      h \in PromptHistories, c \in {"", "simple", "detailed", "expert"} }

\* the query, limitedResults and config.useSimplifiedPrompt of the route
PromptInputs ==
  { [kind |-> "prompt", source |-> "",
     v |-> <<[query |-> q, results |-> r, simplified |-> f]>>] :
      q \in {QueryFix, QueryBlank}, r \in PromptResults, f \in BOOLEAN }

\* chat/route.ts 44-46: the contents of the user messages of the history
userQueries(history) ==
  LET users == SelectSeq(history, LAMBDA msg : msg.role = "user")
  IN [i \in DOMAIN users |-> users[i].content]

\* chat/route.ts 49-73: the search is skipped for the intent 'general'
chatSearchResults(message, responses, today) ==
  IF detectQueryIntent(message) # "general"
  THEN mergeSearchResults(responses, today) ELSE <<>>

\* chat/route.ts 76-81: the prompt of the chat route
chatPrompt(message, history, responses, today) ==
  generateSearchPrompt(
    [query |-> message,
     results |-> chatSearchResults(message, responses, today),
     intent |-> detectQueryIntent(message),
     previousQueries |-> userQueries(history),
     complexity |-> ""])

Message(role, content) == [role |-> role, content |-> content]

\* histories of the chat: none, one exchange, four user turns with answers
\* of the assistant in between
ChatHistories ==
  { <<>>,
    << Message("user", QuerySolar), Message("assistant", QueryFix) >>,
    << Message("user", QuerySolar), Message("assistant", QueryFix),
       Message("user", QueryFix), Message("assistant", QuerySolar),
       Message("user", QueryDebug), Message("user", QueryLatest),
       Message("assistant", QueryDebug) >> }

ChatInputs ==
  { [kind |-> "chat", source |-> "",
     v |-> <<[message |-> m, history |-> h, responses |-> l]>>] :
      m \in {QueryFix, QuerySolar}, h \in ChatHistories,
      l \in { <<>>,
              <<Response("brave", Crowd("brave", 1, 9), TRUE, ""),
                Response("serpapi", Crowd("serpapi", 10, 18), TRUE, "")>>,
              <<Response("brave", Crowd("brave", 1, 9), FALSE, "failed"),
                Response("serpapi", <<ResBit, ResBid>>, TRUE, "")>> } }

\* most calls of checkRateLimit made on one tracker in a run
MaxLimiterCalls == 3

\* the admitted calls that left a window: `early` on the day it opened and
\* the others on the day `late`
History(opened, early, late, others) ==
  << [day |-> opened, count |-> early], [day |-> late, count |-> others] >>

\* a tracker entry with the admitted calls that produced it: no entry; a
\* window opened today and one call short of the budget; a window opened a
\* period ago by one call and filled today, to one call short of the budget
\* and to the budget
TrackedWindows(p) ==
  { [window |-> NoWindow, history |-> <<>>],
    [window |-> [present |-> TRUE, count |-> rateLimitRequests(p) - 1,
                 resetTime |-> Today + MonthPeriod],
     history |-> History(Today, rateLimitRequests(p) - 1, Today, 0)] }
  \cup { [window |-> [present |-> TRUE, count |-> rateLimitRequests(p) - k,
                     resetTime |-> Today],
          history |-> History(Today - MonthPeriod, 1,
                              Today, rateLimitRequests(p) - k - 1)] : k \in {0, 1} }

LimiterInputs ==
  UNION { { [kind |-> "limiter", source |-> p, v |-> <<w>>] : w \in TrackedWindows(p) } :
            p \in ProviderSet }

MaxLogCalls == 3

\* the metric that is logged as the n-th one
Metric(n) ==
  [operation |-> IF n % 3 = 0 THEN "search_api_total" ELSE "search_api_ai_processing",
   success |-> n % 2 = 0]

\* the buffer after n calls of logMetric, n up to MAX_METRICS
Logged(n) == [i \in 1 .. n |-> Metric(i)]

\* buffers left by earlier calls: empty, two short of full, full
BufferInputs ==
  { [kind |-> "buffer", source |-> "", v |-> Logged(n)] :
      n \in {0, MAX_METRICS - 2, MAX_METRICS} }

InitPure ==
  /\ fnInput \in ResultInputs \cup RawInputs \cup ResponseInputs \cup QueryInputs
                 \cup ContextInputs \cup PromptInputs \cup LimiterInputs
                 \cup BufferInputs \cup AssessInputs \cup ChatInputs
  /\ fnName = "none"
  /\ fnOutput = <<>>
  /\ envValid = TRUE /\ now = Today /\ served = 0
  /\ metrics = IF fnInput.kind = "buffer" THEN fnInput.v ELSE <<>>
  /\ rateLimitTracker =
       [p \in ProviderSet |->
          IF fnInput.kind = "limiter" /\ fnInput.source = p
          THEN fnInput.v[1].window ELSE NoWindow]
  /\ pc = "off"
  /\ RequestIdle
  /\ handlers = NoHandlers

ApplyDeduplicate ==
  /\ fnName = "none" /\ fnInput.kind = "results"
  /\ fnName' = "deduplicateResults"
  /\ fnOutput' = deduplicateResults(fnInput.v)
  /\ UNCHANGED <<fnInput, serverVars, requestVars>>

ApplyScore ==
  /\ fnName = "none" /\ fnInput.kind = "results"
  /\ fnName' = "scoreResults"
  /\ fnOutput' = scoreResults(fnInput.v, Today)
  /\ UNCHANGED <<fnInput, serverVars, requestVars>>

\* results.map(transformXResult), when no item makes the normalizer throw
ApplyTransform ==
  /\ fnName = "none" /\ fnInput.kind = "raw"
  /\ ~transformAnyThrows(fnInput.source, fnInput.v)
  /\ fnName' = "transform"
  /\ fnOutput' = transformAll(fnInput.source, fnInput.v)
  /\ UNCHANGED <<fnInput, serverVars, requestVars>>

ApplyMerge ==
  /\ fnName = "none" /\ fnInput.kind = "responses"
  /\ fnName' = "mergeSearchResults"
  /\ fnOutput' = mergeSearchResults(fnInput.v, Today)
  /\ UNCHANGED <<fnInput, serverVars, requestVars>>

ApplyDetectIntent ==
  /\ fnName = "none" /\ fnInput.kind = "query"
  /\ fnName' = "detectQueryIntent"
  /\ fnOutput' = <<detectQueryIntent(fnInput.v)>>
  /\ UNCHANGED <<fnInput, serverVars, requestVars>>

\* assessResultQuality(results), called once and called again on the same array
ApplyAssess ==
  /\ fnInput.kind = "results"
  /\ \/ fnName = "none" /\ fnName' = "assessResultQuality"
     \/ fnName = "assessResultQuality" /\ fnName' = "assessResultQuality again"
  /\ fnOutput' = Append(fnOutput, assessResultQuality(fnInput.v))
  /\ fnInput' = [fnInput EXCEPT !.v = resultsAfterAssess(@)]
  /\ UNCHANGED <<serverVars, requestVars>>

\* generateSearchPrompt(context), run once and run again later, other requests
\* having been served in between
ApplyGeneratePrompt ==
  /\ fnInput.kind = "context"
  /\ fnName \in {"none", "generateSearchPrompt"} /\ Len(fnOutput) < 2
  /\ fnName' = "generateSearchPrompt"
  /\ fnOutput' = Append(fnOutput, generateSearchPrompt(fnInput.v[1]))
  /\ \E elapsed \in {0, 1}, others \in {0, 1} :
       now' = now + elapsed /\ served' = served + others
  /\ UNCHANGED <<fnInput, envValid, rateLimitTracker, metrics, requestVars>>

\* the prompts of the route for one query and one list of results, built once
\* and built again later
ApplyDirectPrompt ==
  /\ fnInput.kind = "prompt"
  /\ fnName \in {"none", "directPrompt"} /\ Len(fnOutput) < 2
  /\ fnName' = "directPrompt"
  /\ fnOutput' =
       Append(fnOutput,
              [direct |-> directPrompt(fnInput.v[1].query, fnInput.v[1].results,
                                       fnInput.v[1].simplified),
               fallback |-> simplifiedPrompt(fnInput.v[1].query,
                                             fnInput.v[1].results)])
  /\ \E elapsed \in {0, 1}, others \in {0, 1} :
       now' = now + elapsed /\ served' = served + others
  /\ UNCHANGED <<fnInput, envValid, rateLimitTracker, metrics, requestVars>>

\* checkRateLimit(source), called at once, a day later or after the window
\* has run out; fnOutput keeps the time and the verdict of each call
ApplyCheckRateLimit ==
  /\ fnInput.kind = "limiter"
  /\ fnName \in {"none", "checkRateLimit"} /\ Len(fnOutput) < MaxLimiterCalls
  /\ fnName' = "checkRateLimit"
  /\ \E elapsed \in {0, 1, MonthPeriod + 1} :
       LET check == checkRateLimit(rateLimitTracker, fnInput.source, now + elapsed)
       IN /\ now' = now + elapsed
          /\ rateLimitTracker' = check.tracker
          /\ fnOutput' = Append(fnOutput, [time |-> now + elapsed,
                                           allowed |-> check.allowed])
  /\ UNCHANGED <<fnInput, envValid, metrics, served, requestVars>>

\* search/route.ts 297-413, 468-492: the responses are merged, at most
\* MAX_RESULTS_TO_PROCESS results are kept and the two prompts are built
ApplyRoutePrompt ==
  /\ fnName = "none" /\ fnInput.kind = "responses"
  /\ fnName' = "routePrompt"
  /\ LET merged == mergeSearchResults(fnInput.v, Today)
     IN fnOutput' =
          <<[merged |-> merged,
             direct |-> directPrompt(QueryFix, limitedOf(merged), useSimplifiedPrompt),
             fallback |-> simplifiedPrompt(QueryFix, limitedOf(merged))]>>
  /\ UNCHANGED <<fnInput, serverVars, requestVars>>

\* chat/route.ts 41-81: the prompt of a chat message with its history
ApplyChatPrompt ==
  /\ fnName = "none" /\ fnInput.kind = "chat"
  /\ fnName' = "chatPrompt"
  /\ fnOutput' =
       <<[searchResults |-> chatSearchResults(fnInput.v[1].message,
                                              fnInput.v[1].responses, Today),
          prompt |-> chatPrompt(fnInput.v[1].message, fnInput.v[1].history,
                                fnInput.v[1].responses, Today)]>>
  /\ UNCHANGED <<fnInput, serverVars, requestVars>>

\* PerformanceMonitor.logMetric is called with the next metric; fnOutput
\* keeps the metrics logged since the input buffer was taken
ApplyLogMetric ==
  /\ fnInput.kind = "buffer" /\ fnName \in {"none", "logMetric"}
  /\ Len(fnOutput) < MaxLogCalls
  /\ fnName' = "logMetric"
  /\ LET metric == Metric(Len(fnInput.v) + Len(fnOutput) + 1)
     IN /\ metrics' = logMetric(metrics, metric)
        /\ fnOutput' = Append(fnOutput, metric)
  /\ UNCHANGED <<fnInput, envValid, now, rateLimitTracker, served, requestVars>>

NextPure ==
  \/ ApplyDeduplicate \/ ApplyScore \/ ApplyTransform \/ ApplyMerge
  \/ ApplyDetectIntent \/ ApplyAssess \/ ApplyGeneratePrompt \/ ApplyDirectPrompt
  \/ ApplyCheckRateLimit \/ ApplyLogMetric \/ ApplyRoutePrompt \/ ApplyChatPrompt

SpecPure == InitPure /\ [][NextPure]_vars

(***************************************************************************)
(* Concurrent requests.  Node runs one handler at a time and switches      *)
(* between handlers only at an await: each action below is the stretch of  *)
(* POST between two awaits, run for request r while the other requests     *)
(* are suspended.  Only what touches the state the requests share is kept: *)
(* the tracker of search-apis and the buffer of PerformanceMonitor.        *)
(***************************************************************************)
MaxConcurrent == 2

RequestIds == 1 .. MaxConcurrent

\* a handler that has not been called yet
HandlerIdle ==
  [pc |-> "idle",
   call |-> [p \in ProviderSet |-> "none"],
   admitted |-> [p \in ProviderSet |-> FALSE],
   timers |-> <<>>]

\* a window whose reset time has passed
ExpiredWindow(source) ==
  [present |-> TRUE, count |-> rateLimitRequests(source), resetTime |-> Today - 1]

\* the trackers the requests can find
ConcurrentTrackers ==
  { t \in [ProviderSet -> UNION { Windows(p) \cup {ExpiredWindow(p)} : p \in ProviderSet }] :
      \A p \in ProviderSet : t[p] \in Windows(p) \cup {ExpiredWindow(p)} }

InitConcurrent ==
  /\ fnInput \in { [kind |-> "tracker", v |-> <<t>>, source |-> ""] : t \in ConcurrentTrackers }
  /\ fnName = "concurrent" /\ fnOutput = <<>>
  /\ envValid = TRUE /\ now = Today /\ served = 0 /\ metrics = <<>>
  /\ rateLimitTracker = fnInput.v[1]
  /\ pc = "off"
  /\ RequestIdle
  /\ handlers = [r \in RequestIds |-> HandlerIdle]

\* the closure of a timer is called by request r
handlerTimer(handler, operation) ==
  [handler EXCEPT !.timers = Append(@, operation)]

\* route.ts 186-201: the handler is called and awaits request.json()
HandlerReceive(r) ==
  /\ handlers[r].pc = "idle"
  /\ handlers' = [handlers EXCEPT ![r].pc = "parsing"]
  /\ served' = served + 1
  /\ UNCHANGED <<pureVars, envValid, now, rateLimitTracker, metrics, pc, body,
                 call, fate, networkCalls, llmCalls, llmPrompt, llmOutcome,
                 llmSilent, apiResponses, anySuccessfulSearch, mergedResults,
                 quality, aiResponse, response>>

\* route.ts 202-265: the body is there; a body that is turned down ends in
\* the catch block, otherwise both provider calls run up to their await
HandlerStart(r) ==
  /\ handlers[r].pc = "parsing"
  /\ \/ /\ metrics' = timerDone(metrics, "search_api_total", FALSE)
        /\ handlers' = [handlers EXCEPT
             ![r] = [handlerTimer(@, "search_api_total") EXCEPT !.pc = "done"]]
        /\ UNCHANGED rateLimitTracker
     \/ LET braveCheck == checkRateLimit(rateLimitTracker, "brave", now)
            serpCheck  == checkRateLimit(braveCheck.tracker, "serpapi", now)
            checks     == [p \in ProviderSet |->
                             IF p = "brave" THEN braveCheck ELSE serpCheck]
        IN /\ rateLimitTracker' = serpCheck.tracker
           /\ handlers' = [handlers EXCEPT
                ![r] = [@ EXCEPT !.pc = "searching",
                                 !.call = [p \in ProviderSet |-> started(checks[p])],
                                 !.admitted = [p \in ProviderSet |-> checks[p].allowed]]]
           /\ metrics' = metrics
  /\ UNCHANGED <<pureVars, envValid, now, served, pc, body,
                 call, fate, networkCalls, llmCalls, llmPrompt, llmOutcome,
                 llmSilent, apiResponses, anySuccessfulSearch, mergedResults,
                 quality, aiResponse, response>>

\* the .then callback of a provider call of request r runs
HandlerProviderSettle(r, p) ==
  /\ handlers[r].pc = "searching"
  /\ handlers[r].call[p] \in {"refused", "inflight"}
  /\ handlers' = [handlers EXCEPT ![r].call[p] = "settled"]
  /\ UNCHANGED <<pureVars, serverVars, pc, body,
                 call, fate, networkCalls, llmCalls, llmPrompt, llmOutcome,
                 llmSilent, apiResponses, anySuccessfulSearch, mergedResults,
                 quality, aiResponse, response>>

\* route.ts 266-443: the barrier of request r opens; three timers are
\* stopped and the model is called
HandlerAfterAllSettled(r) ==
  /\ handlers[r].pc = "searching"
  /\ \A p \in ProviderSet : handlers[r].call[p] = "settled"
  /\ metrics' = timerDone(timerDone(timerDone(metrics,
                  "search_api_external_calls", TRUE),
                  "search_api_merge_results", TRUE),
                  "search_api_intent_detection", TRUE)
  /\ handlers' = [handlers EXCEPT
       ![r] = [handlerTimer(handlerTimer(handlerTimer(@,
                 "search_api_external_calls"),
                 "search_api_merge_results"),
                 "search_api_intent_detection") EXCEPT !.pc = "llm"]]
  /\ UNCHANGED <<pureVars, envValid, now, rateLimitTracker, served, pc, body,
                 call, fate, networkCalls, llmCalls, llmPrompt, llmOutcome,
                 llmSilent, apiResponses, anySuccessfulSearch, mergedResults,
                 quality, aiResponse, response>>

\* route.ts 443-662: the chain of model calls of request r has ended; the
\* last two timers are stopped and the response is sent
HandlerRespond(r) ==
  /\ handlers[r].pc = "llm"
  /\ metrics' = timerDone(timerDone(metrics, "search_api_ai_processing", TRUE),
                          "search_api_total", TRUE)
  /\ handlers' = [handlers EXCEPT
       ![r] = [handlerTimer(handlerTimer(@, "search_api_ai_processing"),
                 "search_api_total") EXCEPT !.pc = "done"]]
  /\ UNCHANGED <<pureVars, envValid, now, rateLimitTracker, served, pc, body,
                 call, fate, networkCalls, llmCalls, llmPrompt, llmOutcome,
                 llmSilent, apiResponses, anySuccessfulSearch, mergedResults,
                 quality, aiResponse, response>>

NextConcurrent ==
  \/ \E r \in RequestIds : HandlerReceive(r)
  \/ \E r \in RequestIds : HandlerStart(r)
  \/ \E r \in RequestIds, p \in ProviderSet : HandlerProviderSettle(r, p)
  \/ \E r \in RequestIds : HandlerAfterAllSettled(r)
  \/ \E r \in RequestIds : HandlerRespond(r)

SpecConcurrent == InitConcurrent /\ [][NextConcurrent]_vars

(***************************************************************************)
(* Properties of the pure functions (SpecPure)                             *)
(***************************************************************************)
\* C8: for every input list, deduplicateResults returns a list no longer than
\* the input in which no two distinct survivors have URL similarity above 0.8
\* or title similarity above 0.9.
C8_NoSimilarSurvivors ==
  fnName = "deduplicateResults" =>
    /\ Len(fnOutput) <= Len(fnInput.v)
    /\ \A i, j \in DOMAIN fnOutput :
         i # j =>
           /\ ~RatioGT(calculateUrlSimilarity(fnOutput[i].url, fnOutput[j].url), 8, 10)
           /\ ~RatioGT(calculateTitleSimilarity(fnOutput[i].title, fnOutput[j].title), 9, 10)

\* two results that deduplicateResults is to treat as duplicates
areDuplicates(a, b) == a.url = b.url \/ isSimilar(a, b)

\* C9: of two input results that are duplicates of each other, deduplicateResults
\* keeps the one with the higher relevanceScore whatever their order, and the
\* first-seen one when the scores are equal (same URL scored 70 and 90: exactly
\* one result, with score 90, survives).
C9_KeepsHigherScore ==
  (/\ fnName = "deduplicateResults"
   /\ Len(fnInput.v) = 2
   /\ areDuplicates(fnInput.v[1], fnInput.v[2])) =>
    fnOutput = << IF fnInput.v[2].relevanceScore > fnInput.v[1].relevanceScore
                  THEN fnInput.v[2] ELSE fnInput.v[1] >>

inScoreRange(result) == 0 <= result.relevanceScore /\ result.relevanceScore <= 1000

done == pc = "done" /\ served > 0

\* the query of the body exists, is non-empty after trimming and has at most
\* 500 characters
wellFormedQuery(b) ==
  /\ b.json /\ b.queryType = "string"
  /\ trim(b.query) # <<>>
  /\ Len(b.query) <= QueryMaxLength

\* the body passes every test of the route before the fan-out
accepted(b) == b.json /\ ~queryIsEmpty(b) /\ schemaAccepts(b)

\* the query of a JSON body is missing, empty, whitespace-only or too long
rejectedQuery(b) ==
  /\ b.json
  /\ \/ b.queryType = "undefined"
     \/ b.queryType = "string" /\ (trim(b.query) = <<>> \/ Len(b.query) > QueryMaxLength)

responsesOf(p) == SelectSeq(apiResponses, LAMBDA r : r.source = p)

\* the call of p has come back without a result list
providerFailed(p) ==
  /\ call[p] = "settled"
  /\ \/ fate[p].kind \in {"timeout", "error", "refused"}
     \/ fate[p].kind = "ok" /\ transformAnyThrows(p, fate[p].payload)

\* the merge stage of the current request has started
mergeStarted ==
  \/ pc \in {"llm_first", "llm_fallback"}
  \/ pc = "done" /\ response.status = 200

\* C1, as stated: every answered request with a well-formed query has a
\* successful response whose answer is a non-empty string.
C1_AlwaysAnswers ==
  (done /\ wellFormedQuery(body)) =>
    (response.status = 200 /\ response.answer.length > 0)

\* C1, amended: every answered request whose body passes the validation of the
\* route, served while the environment holds the required API keys, has a
\* successful response whose answer is a non-empty string, whatever the
\* providers and the model did.
C1_AnswersAcceptedRequests ==
  (done /\ envValid /\ accepted(body)) =>
    (response.status = 200 /\ response.answer.length > 0 /\ response.answer.parts # <<>>)

\* C1 witness: every provider failed and the model returned an empty text, and
\* the request was answered with the template built from the search results.
C1_Witness ==
  /\ done /\ envValid /\ accepted(body)
  /\ \A p \in ProviderSet : providerFailed(p)
  /\ aiResponse.length = 0 /\ llmCalls = 1
  /\ response.status = 200 /\ response.answer.parts = <<"short-template">>

\* C2, as stated: a request ends in an error response only when its query is
\* missing, empty or oversized.
C2_ErrorOnlyFromMalformedQuery ==
  (done /\ response.status # 200) => ~wellFormedQuery(body)

\* C2, amended: a request ends in an error response only when its body fails
\* the validation of the route or the environment lacks a required API key;
\* provider failures and model failures never end in an error response.
C2_ErrorOnlyFromRejectedInput ==
  /\ (done /\ response.status # 200) =>
       (/\ ~envValid \/ ~accepted(body)
        /\ networkCalls = [p \in ProviderSet |-> 0] /\ llmCalls = 0)
  /\ (done /\ (llmCalls > 0 \/ \E p \in ProviderSet : call[p] = "settled")) =>
       response.status = 200

\* C2 witness: the construction of the model client threw after every provider
\* had failed, and the request still ended with a 200 response.
C2_Witness ==
  /\ done /\ response.status = 200
  /\ \A p \in ProviderSet : providerFailed(p)
  /\ aiResponse.name = "ai-error-notice"

\* C3, state part: a provider call that timed out, threw or was refused has
\* left one response with success = false, an error string and no results, and
\* a request with such a call is answered with a 200 response.
C3_FailureResponse ==
  /\ \A p \in ProviderSet :
       providerFailed(p) =>
         /\ Len(responsesOf(p)) = 1
         /\ ~responsesOf(p)[1].success
         /\ responsesOf(p)[1].error # ""
         /\ responsesOf(p)[1].results = <<>>
  /\ (done /\ \E p \in ProviderSet : providerFailed(p)) => response.status = 200

\* C3, step part: the step in which the call of one provider comes back, with
\* whatever outcome, leaves the call of the other provider and its response as
\* they were.
C3_SiblingUntouched ==
  \A p \in ProviderSet :
    (call[p] # "settled" /\ call'[p] = "settled") =>
      \A q \in ProviderSet \ {p} :
        /\ call'[q] = call[q]
        /\ fate'[q] = fate[q]
        /\ SelectSeq(apiResponses', LAMBDA r : r.source = q) = responsesOf(q)

\* C3: a provider call that times out, throws or is refused by the rate limit
\* yields a response with success = false and an error string; it does not fail
\* the request, does not change the other provider's response and does not
\* cancel the other provider's call.
C3_ProviderFailureIsolated == [](C3_FailureResponse) /\ [][C3_SiblingUntouched]_vars

\* C3 witness: brave timed out, serpapi answered afterwards with results, and
\* the request was answered from serpapi alone.
C3_Witness ==
  /\ done /\ response.status = 200
  /\ fate["brave"].kind = "timeout" /\ fate["serpapi"].kind = "ok"
  /\ Len(apiResponses) = 2 /\ apiResponses[1].source = "brave"
  /\ response.sourcesUsed = <<"serpapi">> /\ response.sources # <<>>

C5_NoSuccessNoSources ==
  (mergeStarted /\ \A i \in DOMAIN apiResponses : ~apiResponses[i].success) =>
    /\ mergedResults = <<>>
    /\ mergeSearchResults(apiResponses, now) = <<>>
    /\ quality.quality = "low" /\ quality.confidence = 0
    /\ done => (response.sources = <<>> /\ response.confidence = 0)

\* C5 witness: one call was refused by the rate limit, the other failed, and
\* the response went out with confidence 0.
C5_Witness ==
  /\ done /\ response.status = 200
  /\ \E p \in ProviderSet : fate[p].kind = "refused"
  /\ \A i \in DOMAIN apiResponses : ~apiResponses[i].success
  /\ response.confidence = 0

\* the response tells the client that the query failed validation
isValidationError(r) ==
  \/ r.status = 400 /\ r.error = "Search query cannot be empty"
  \/ r.status >= 400 /\ r.details = "Query too long"

\* for a rejected query no provider call and no model call is made
noCallsMade ==
  /\ networkCalls = [p \in ProviderSet |-> 0]
  /\ \A p \in ProviderSet : call[p] = "none"
  /\ llmCalls = 0

\* the arrival of a request with a rejected query leaves the tracker unchanged
trackerUntouched ==
  (served' = served + 1 /\ rejectedQuery(body')) => rateLimitTracker' = rateLimitTracker

Reverse(seq) == [i \in DOMAIN seq |-> seq[Len(seq) + 1 - i]]

\* C7: for the same provider responses the merged list is the same whichever
\* call came back first: merging the responses in the other order of arrival
\* gives the list the request has merged.
C7_OrderIndependent ==
  mergeStarted => mergedResults = mergeSearchResults(Reverse(apiResponses), now)

\* C11: every successful response has at most 6 sources, which are the first
\* results of the merged list, itself ranked by non-increasing score; exactly 3
\* follow-up questions, pairwise distinct; and a confidence within [0,100].
C11_ResponseShape ==
  (done /\ response.status = 200) =>
    /\ Len(response.sources) = Min2(6, Len(mergedResults))
    /\ \A i \in DOMAIN response.sources : response.sources[i] = mergedResults[i]
    /\ \A i, j \in DOMAIN mergedResults :
         i < j => mergedResults[i].relevanceScore >= mergedResults[j].relevanceScore
    /\ Len(response.followUpQuestions) = 3
    /\ \A i, j \in DOMAIN response.followUpQuestions :
         i # j => response.followUpQuestions[i] # response.followUpQuestions[j]
    /\ response.confidence >= 0 /\ response.confidence <= 100

\* C11 witness: more than six results were merged, six went out, and the third
\* follow-up question comes from a year in a result title.
C11_Witness ==
  /\ done /\ response.status = 200
  /\ Len(mergedResults) > 6 /\ Len(response.sources) = 6
  /\ response.followUpQuestions[3][1] = "What is the history and evolution of "

\* the lower-cased query contains one of the patterns as a substring
containsKeyword(q, patterns) ==
  \E pattern \in patterns, i, j \in 1..Len(q) :
    SubSeq(toLowerCase(q), i, j) = pattern

\* the categories of detectQueryIntent in the order of the claim
IntentOrder ==
  << [intent |-> "technical", patterns |-> technicalPatterns],
     [intent |-> "shopping", patterns |-> shoppingPatterns],
     [intent |-> "news", patterns |-> newsPatterns],
     [intent |-> "research", patterns |-> researchPatterns] >>

\* C12: detectQueryIntent returns, for every query, the first category in the
\* order technical, shopping, news, research one of whose keywords the
\* lower-cased query contains as a substring, and general when there is none.
C12_FirstMatchingIntent ==
  fnName = "detectQueryIntent" =>
    LET matching == { k \in DOMAIN IntentOrder :
                        containsKeyword(fnInput.v, IntentOrder[k].patterns) }
    IN fnOutput = << IF matching = {} THEN "general"
                     ELSE IntentOrder[CHOOSE k \in matching :
                                        \A m \in matching : k <= m].intent >>

\* C12 witness: "how to fix python error" was classified as technical.
C12_Witness ==
  /\ fnName = "detectQueryIntent"
  /\ fnInput.v = QueryFix
  /\ fnOutput = <<"technical">>

NoSourcesPhrases ==
  { <<"n","o"," ","s","o","u","r","c","e","s">>,
    <<"n","o"," ","s","e","a","r","c","h"," ","r","e","s","u","l","t","s">>,
    <<"n","o"," ","r","e","s","u","l","t","s">>,
    <<"w","i","t","h","o","u","t"," ","s","o","u","r","c","e","s">> }

\* the word by which a prompt can ask for a lower confidence
ConfidencePhrases == { <<"c","o","n","f","i","d","e","n","c","e">> }

\* C15: whenever the merged result set is empty, the prompt sent to the LLM,
\* rich or simplified, states that no sources are available and that the
\* confidence should be flagged as lower.
C15_EmptyMergeFlagged ==
  (pc \in {"llm_first", "llm_fallback"} /\ mergedResults = <<>>) =>
    /\ somePattern(NoSourcesPhrases, promptText(llmPrompt))
    /\ somePattern(ConfidencePhrases, promptText(llmPrompt))

\* C16: within one request the model is called at most twice; the second
\* call carries the simplified prompt and is made only when the first call
\* has failed or timed out; the titles template is the answer text only after
\* both calls have failed, and always when both have failed.
C16_LlmRetryBudget ==
  /\ llmCalls <= 2
  /\ pc = "llm_fallback" =>
       /\ llmCalls = 2
       /\ llmOutcome \in {"error", "timeout"}
       /\ llmPrompt = simplifiedPrompt(query, limitedOf(mergedResults))
  /\ pc = "llm_first" => llmCalls = 1
  /\ done /\ response.status = 200 =>
       (aiResponse = titlesTemplate(query, limitedOf(mergedResults))
          <=> (llmCalls = 2 /\ llmOutcome = "error"))

\* C16 witness: both calls failed and the answer is built from the titles
\* template of a non-empty result list.
C16_Witness ==
  /\ done /\ response.status = 200
  /\ llmCalls = 2 /\ llmOutcome = "error"
  /\ aiResponse.name = "titles-template"
  /\ Len(mergedResults) > 0

\* a request that passed validation and has not been answered
pending == pc \in {"searching", "llm_first", "llm_fallback"}

\* some continuation of the handler is bound to run
handlerProceeds ==
  \/ \E p \in ProviderSet : providerSettles(p)
  \/ barrierOpens
  \/ firstSettles
  \/ fallbackSettles

\* C17: every accepted request eventually returns a response, even when a
\* provider or the model never answers: before the response is sent the
\* handler always has a continuation that is bound to run, each call being
\* cut off by its deadline, so it never waits forever.
C17_NeverWaitsForever == pending => handlerProceeds

\* aiResponse.split(/\s+/) has at most length + 1 pieces: a text this short is
\* below the configured minimum of words
belowMinimumLength(ai) == ai.length + 1 < minResponseLength

\* C18: whenever the text of the model is below the configured minimum
\* length, or has fewer citation markers than expected for the sources used,
\* or has fewer than three sections, the returned answer is that text with
\* content added.
C18_DeficientAnswerRepaired ==
  (/\ done /\ response.status = 200
   /\ aiResponse \in LlmTexts
   /\ \/ belowMinimumLength(aiResponse)
      \/ aiResponse.citations < Min2(5, Len(limitedOf(mergedResults)))
      \/ aiResponse.sections < 3)
  => /\ \E i \in DOMAIN response.answer.parts :
          response.answer.parts[i] = aiResponse.name
     /\ Len(response.answer.parts) >= 2
     /\ response.answer.length > aiResponse.length

\* the counter of p has reached its budget and the window is still open
exhausted(p, time) ==
  /\ rateLimitTracker[p].present
  /\ time <= rateLimitTracker[p].resetTime
  /\ rateLimitTracker[p].count >= rateLimitRequests(p)

\* C19: when the counter of a provider has reached its budget inside the
\* current window, a call of that provider makes no network request, leaves
\* the counter unchanged and comes back as a failed response.
C19_ExhaustedBudgetRefuses ==
  /\ [][ \A p \in ProviderSet :
           (served' = served + 1 /\ pc' = "searching" /\ exhausted(p, now')) =>
             /\ networkCalls'[p] = 0
             /\ call'[p] = "refused"
             /\ rateLimitTracker'[p] = rateLimitTracker[p] ]_vars
  /\ [](\A p \in ProviderSet :
          call[p] \in {"refused", "settled"} /\ fate[p] = Refused =>
            /\ networkCalls[p] = 0
            /\ call[p] = "settled" =>
                 /\ Len(responsesOf(p)) = 1
                 /\ ~responsesOf(p)[1].success
                 /\ responsesOf(p)[1].results = <<>>)

\* C19 witness: the call of SerpAPI was refused on an exhausted window and its
\* failed response has arrived, while Brave was called.
C19_Witness ==
  /\ pc = "searching"
  /\ call["serpapi"] = "settled" /\ fate["serpapi"] = Refused
  /\ exhausted("serpapi", now)
  /\ rateLimitTracker["serpapi"].count = SerpapiRequests
  /\ networkCalls = [brave |-> 1, serpapi |-> 0]
  /\ ~responsesOf("serpapi")[1].success

\* the calls of the run's provider admitted on the days from..to
admittedIn(from, to) ==
  LET history == fnInput.v[1].history
      before == IF history = <<>> THEN 0
                ELSE (IF history[1].day \in from..to THEN history[1].count ELSE 0)
                     + (IF history[2].day \in from..to THEN history[2].count ELSE 0)
  IN before + Cardinality({ i \in DOMAIN fnOutput :
                              fnOutput[i].allowed /\ fnOutput[i].time \in from..to })

\* C20: the rate limit is a rolling window: in any interval no longer than the
\* period, the calls admitted for a provider do not exceed its budget.
C20_RollingWindow ==
  fnName = "checkRateLimit" =>
    \A from \in (Today - MonthPeriod)..now :
      admittedIn(from, from + MonthPeriod) <= rateLimitRequests(fnInput.source)

(***************************************************************************)
(* C21                                                                     *)
(***************************************************************************)
\* the calls a window has counted when a request finds it
carried(window, time) ==
  IF window.present /\ time <= window.resetTime THEN window.count ELSE 0

\* how many entries of a sequence satisfy a test on the operation
occurrences(operations, operation) ==
  Cardinality({ i \in 1 .. Len(operations) : operations[i] = operation })

operationsOf(buffer) == [i \in 1 .. Len(buffer) |-> buffer[i].operation]

Operations ==
  { "search_api_total", "search_api_external_calls", "search_api_merge_results",
    "search_api_intent_detection", "search_api_ai_processing" }

\* C21: under every interleaving of concurrent requests at their awaits, no
\* update of the shared state is lost: the counter of a provider is what the
\* window in force had counted plus one for each provider call admitted since, and
\* the buffer holds each metric a handler has recorded exactly once
C21_NoLostUpdate ==
  fnName = "concurrent" =>
    /\ \A p \in ProviderSet :
         carried(rateLimitTracker[p], now) =
           carried(fnInput.v[1][p], Today)
           + Cardinality({ r \in RequestIds : handlers[r].admitted[p] })
    /\ \A operation \in Operations :
         occurrences(operationsOf(metrics), operation) =
           Cardinality({ <<r, i>> \in RequestIds \X (1 .. 5) :
                           /\ i <= Len(handlers[r].timers)
                           /\ handlers[r].timers[i] = operation })
    /\ \A r \in RequestIds :
         \A i \in 1 .. Len(handlers[r].timers) :
           occurrences(handlers[r].timers, handlers[r].timers[i]) = 1

\* the requests were in flight together, all were admitted by a provider,
\* whose counter stands at their number, and all have recorded their metrics
C21_Witness ==
  /\ fnName = "concurrent"
  /\ \A r \in RequestIds : handlers[r].pc = "done" /\ handlers[r].admitted["brave"]
  /\ rateLimitTracker["brave"].count = MaxConcurrent
  /\ Len(metrics) = 5 * MaxConcurrent
  /\ operationsOf(metrics)[1] = operationsOf(metrics)[4]

(***************************************************************************)
(* C22                                                                     *)
(***************************************************************************)
\* the last n entries of a sequence, all of it when it is shorter
lastOf(all, n) == SubSeq(all, Max2(1, Len(all) - n + 1), Len(all))

\* C22: after any sequence of logMetric calls the buffer holds at most 1000
\* entries, and they are the most recently logged metrics in the order they
\* were logged: when the buffer is full the oldest entry is evicted
C22_BufferKeepsNewest ==
  fnInput.kind = "buffer" =>
    /\ Len(metrics) <= MAX_METRICS
    /\ metrics = lastOf(fnInput.v \o fnOutput, MAX_METRICS)

\* metrics were logged into a full buffer and the oldest ones are gone
C22_Witness ==
  /\ fnName = "logMetric"
  /\ Len(fnInput.v) = MAX_METRICS
  /\ Len(fnOutput) >= 2
  /\ metrics[1] = fnInput.v[3]
  /\ metrics[1] # fnInput.v[1]
  /\ metrics[MAX_METRICS] = fnOutput[Len(fnOutput)]

(***************************************************************************)
(* C23                                                                     *)
(***************************************************************************)
\* in a list of scored results, m is ranked before k: a higher score, or the
\* same score and an earlier place in the list
rankedBefore(scored, m, k) ==
  \/ scored[m].relevanceScore > scored[k].relevanceScore
  \/ scored[m].relevanceScore = scored[k].relevanceScore /\ m < k

rankOf(scored, k) ==
  1 + Cardinality({ m \in 1 .. Len(scored) : rankedBefore(scored, m, k) })

freshnessByAge(publishedDate, today) ==
  IF publishedDate.kind # "date" THEN 50
  ELSE LET age == today - publishedDate.day
       IN IF age <= 1 THEN 100
          ELSE IF age <= 7 THEN 90
          ELSE IF age <= 30 THEN 80
          ELSE IF age <= 90 THEN 70
          ELSE IF age <= 365 THEN 60
          ELSE 40

KnownDomains ==
  { "wikipedia.org", "github.com", "stackoverflow.com", "medium.com", "reddit.com",
    "quora.com", "youtube.com", "docs.google.com", "microsoft.com", "apple.com",
    "mozilla.org", "w3.org", "ieee.org", "acm.org", "arxiv.org", "nature.com",
    "science.org", "pubmed.ncbi.nlm.nih.gov" }

\* the composite score of the specification, in tenths
compositeScore(result, today) ==
  LET authority == IF result.domain \in KnownDomains
                   THEN calculateDomainAuthority(result.domain) ELSE 50
      trust     == IF result.source \in ProviderSet
                   THEN getSourceWeight(result.source) ELSE 50
      weighted  == (4 * result.relevanceScore + 30 * authority
                    + 20 * freshnessByAge(result.publishedDate, today)
                    + 10 * trust) \div 10
  IN IF weighted < 0 THEN 0 ELSE IF weighted > 1000 THEN 1000 ELSE weighted

\* C24: scoreResults sets the score of each result to 0.4*raw relevance
\* + 0.3*domain authority + 0.2*freshness + 0.1*provider trust, clamped to
\* [0,100]; authority and trust are 50 for an unknown domain or provider;
\* freshness is 100, 90, 80, 70, 60 for an age of at most 1, 7, 30, 90, 365
\* days, 40 for an older date and 50 when the date of publication is unknown
C24_CompositeScore ==
  fnName = "scoreResults" =>
    /\ Len(fnOutput) = Len(fnInput.v)
    /\ \A i \in DOMAIN fnOutput :
         fnOutput[i].relevanceScore = compositeScore(fnInput.v[i], Today)

(***************************************************************************)
(* C25                                                                     *)
(***************************************************************************)
\* the penalties of the specification for a non-empty result set
penalties(results) ==
  LET n == Len(results)
      dated == Cardinality({ i \in 1 .. n : results[i].publishedDate.kind # "none" })
      domains == { results[i].domain : i \in 1 .. n }
  IN (IF n < 5 THEN 20 ELSE 0)
     + (IF sumRelevance(results) < 60 * 10 * n THEN 25 ELSE 0)
     + (IF Cardinality(domains) < 3 THEN 15 ELSE 0)
     + (IF 2 * dated < n THEN 10 ELSE 0)

tierOf(confidence) ==
  IF confidence < 50 THEN "low" ELSE IF confidence < 75 THEN "medium" ELSE "high"

\* 8 results, 8 domains, average relevance 85, all dated
noDeficiency(results) ==
  /\ Len(results) = 8
  /\ Cardinality({ results[i].domain : i \in 1 .. 8 }) = 8
  /\ sumRelevance(results) = 85 * 10 * 8
  /\ \A i \in 1 .. 8 : results[i].publishedDate.kind = "date"

\* C25: for every non-empty result set the confidence of assessResultQuality
\* is 100 minus the penalties that apply (20 for fewer than 5 results, 25 for
\* an average relevance below 60, 15 for fewer than 3 domains, 10 for fewer
\* than half of the results dated), the tier is low below 50, medium below 75
\* and high otherwise; a set without deficiency gets high and at least 90
C25_ConfidenceFromPenalties ==
  (fnName = "assessResultQuality" /\ Len(fnInput.v) > 0) =>
    /\ fnOutput[1].confidence = 100 - penalties(fnInput.v)
    /\ fnOutput[1].quality = tierOf(fnOutput[1].confidence)
    /\ noDeficiency(fnInput.v) =>
         fnOutput[1].quality = "high" /\ fnOutput[1].confidence >= 90

\* the set without deficiency has been assessed
C25_Witness ==
  /\ fnName = "assessResultQuality"
  /\ noDeficiency(fnInput.v)
  /\ fnOutput[1].quality = "high"

(***************************************************************************)
(* C26                                                                     *)
(***************************************************************************)
\* the sources of a prompt are the first results of a ranked list, numbered
\* from 1 in the order of the list, and there are at most `most` of them
listsInRankOrder(sources, ranked, most) ==
  /\ Len(sources) = Min2(most, Len(ranked))
  /\ \A i \in 1 .. Len(sources) :
       /\ sources[i].index = i
       /\ sources[i].title = ranked[i].title
       /\ sources[i].url = ranked[i].url

\* the queries of a prompt are the last three of a history, or all of it
recentQueries(queries, supplied) ==
  /\ Len(queries) = Min2(3, Len(supplied))
  /\ \A i \in 1 .. Len(queries) :
       queries[i] = supplied[Len(supplied) - Len(queries) + i]

\* C26: every prompt sent to the model lists at most K merged results (8 in
\* the search route), numbered from 1 in rank order, and includes at most 3
\* previous user queries, the 3 most recent ones of the supplied history
C26_PromptBounded ==
  /\ fnName = "routePrompt" =>
       /\ listsInRankOrder(fnOutput[1].direct.sources, fnOutput[1].merged,
                           MAX_RESULTS_TO_PROCESS)
       /\ listsInRankOrder(fnOutput[1].fallback.sources, fnOutput[1].merged, 3)
  /\ fnName = "chatPrompt" =>
       /\ listsInRankOrder(fnOutput[1].prompt.sourcesContext.sources,
                           fnOutput[1].searchResults, 15)
       /\ recentQueries(fnOutput[1].prompt.conversationContext.queries,
                        userQueries(fnInput.v[1].history))
  /\ fnName = "generateSearchPrompt" =>
       \A n \in DOMAIN fnOutput :
         /\ listsInRankOrder(fnOutput[n].sourcesContext.sources,
                             fnInput.v[1].results, Len(fnInput.v[1].results))
         /\ recentQueries(fnOutput[n].conversationContext.queries,
                          fnInput.v[1].previousQueries)

\* the search route has cut a merged list of more than 8 results to 8
\* numbered sources
C26_Witness ==
  /\ fnName = "routePrompt"
  /\ Len(fnOutput[1].merged) > MAX_RESULTS_TO_PROCESS
  /\ Len(fnOutput[1].direct.sources) = MAX_RESULTS_TO_PROCESS
  /\ fnOutput[1].direct.sources[MAX_RESULTS_TO_PROCESS].index = MAX_RESULTS_TO_PROCESS

\* the chat route has dropped the oldest of four user queries and the
\* answers of the assistant
C26_HistoryWitness ==
  /\ fnName = "chatPrompt"
  /\ Len(userQueries(fnInput.v[1].history)) = 4
  /\ fnOutput[1].prompt.conversationContext.queries = <<QueryFix, QueryDebug, QueryLatest>>
  /\ Len(fnOutput[1].prompt.sourcesContext.sources) = 15

(***************************************************************************)
(* C27                                                                     *)
(***************************************************************************)
\* C27: deduplicateResults is idempotent: applied to its own output it
\* returns that output unchanged, the same results in the same order
C27_DedupIdempotent ==
  fnName = "deduplicateResults" => deduplicateResults(fnOutput) = fnOutput

(***************************************************************************)
(* C28                                                                     *)
(***************************************************************************)
\* a result of the merged list and a result of a response are the same
\* result: scoring changes the score only
sameOrigin(merged, original) ==
  /\ merged.id = original.id
  /\ merged.url = original.url
  /\ merged.title = original.title
  /\ merged.source = original.source

carriedBy(responses, flag) ==
  UNION { { responses[n].results[i] : i \in DOMAIN responses[n].results } :
            n \in { m \in DOMAIN responses : responses[m].success = flag } }

\* C28: every result returned by mergeSearchResults originates from a
\* response flagged success=true (same id, url, title and provider); a result
\* that only responses flagged success=false carry never appears
C28_OnlySuccessfulSources ==
  fnName = "mergeSearchResults" =>
    /\ \A i \in DOMAIN fnOutput :
         \E original \in carriedBy(fnInput.v, TRUE) : sameOrigin(fnOutput[i], original)
    /\ \A failed \in carriedBy(fnInput.v, FALSE) \ carriedBy(fnInput.v, TRUE) :
         \A i \in DOMAIN fnOutput : ~sameOrigin(fnOutput[i], failed)

\* a failed response carried a result that no successful response carried,
\* and the merged list holds the results of the successful response only
C28_Witness ==
  /\ fnName = "mergeSearchResults"
  /\ carriedBy(fnInput.v, FALSE) \ carriedBy(fnInput.v, TRUE) # {}
  /\ Len(fnOutput) > 0
  /\ \E n \in DOMAIN fnInput.v : ~fnInput.v[n].success /\ Len(fnInput.v[n].results) > 0

(***************************************************************************)
(* C29                                                                     *)
(***************************************************************************)
\* the provider of the run is over budget: its counter has reached the budget
overBudget ==
  /\ fnInput.kind = "limiter"
  /\ rateLimitTracker[fnInput.source].present
  /\ rateLimitTracker[fnInput.source].count >= rateLimitRequests(fnInput.source)

\* C29: a provider that is refused for being over budget is admitted again by
\* the first call made after the reset time of the window has passed, and
\* that call restarts the counter at 1 with a new reset time; until the reset
\* time every call of the provider stays refused
C29_AdmittedAfterReset ==
  [][ (overBudget /\ fnName' = "checkRateLimit" /\ Len(fnOutput') = Len(fnOutput) + 1) =>
        LET p == fnInput.source
            verdict == fnOutput'[Len(fnOutput')]
        IN IF verdict.time > rateLimitTracker[p].resetTime
           THEN /\ verdict.allowed
                /\ rateLimitTracker'[p].count = 1
                /\ rateLimitTracker'[p].resetTime = verdict.time + MonthPeriod
                /\ rateLimitTracker'[p].resetTime > rateLimitTracker[p].resetTime
           ELSE /\ ~verdict.allowed
                /\ rateLimitTracker' = rateLimitTracker ]_vars

\* a provider was refused twice inside its window and admitted by the call
\* that came after the reset time
C29_Witness ==
  /\ fnName = "checkRateLimit"
  /\ Len(fnOutput) = 3
  /\ ~fnOutput[1].allowed /\ ~fnOutput[2].allowed /\ fnOutput[3].allowed
  /\ fnOutput[2].time = fnInput.v[1].window.resetTime
  /\ fnOutput[3].time > fnInput.v[1].window.resetTime
  /\ rateLimitTracker[fnInput.source].count = 1

(***************************************************************************)
(* C30                                                                     *)
(***************************************************************************)
\* the parts the validation of the route can put around a text
ValidationParts ==
  { "additional-sources", "wrap-header", "summary-intro", "detailed-report",
    "key-takeaways", "conclusion", "sources-referenced" }

\* the model has returned the text the answer was built from
answeredByModel ==
  /\ done /\ response.status = 200
  /\ llmOutcome = "text"
  /\ aiResponse \in LlmTexts

\* C30: when the model returns a text of at least 100 non-blank characters,
\* the answer contains that text unchanged as one contiguous part: the
\* validation only adds text before or after it
C30_ModelTextKept ==
  (answeredByModel /\ aiResponse.trimLength >= 100) =>
    LET parts == response.answer.parts
    IN /\ Cardinality({ i \in DOMAIN parts : parts[i] = aiResponse.name }) = 1
       /\ \A i \in DOMAIN parts :
            parts[i] # aiResponse.name => parts[i] \in ValidationParts
       /\ response.answer.length >= aiResponse.length

\* a text of 150 characters without citations or sections was returned, and
\* the answer holds it between a header and added sections
C30_Witness ==
  /\ answeredByModel
  /\ aiResponse.name = "llm-plain"
  /\ Len(response.answer.parts) >= 4
  /\ response.answer.parts[1] = "wrap-header"
  /\ \E i \in 2 .. (Len(response.answer.parts) - 1) :
       response.answer.parts[i] = "llm-plain"

====
